---- MODULE Spec2Model ----
(***************************************************************************)
(* Connection lifecycle of NearbyConnect, as installed by                  *)
(* src/fix-database-function.sql (the second, complete setup, lines        *)
(* 403-940, which drops and recreates what the first one made) and used by *)
(* src/app/dashboard/page.tsx.                                             *)
(*                                                                         *)
(* The state is the content of the tables connection_requests, connections *)
(* and notifications.  Every SQL statement is one action: PostgreSQL runs  *)
(* a statement together with the row triggers it fires in one transaction, *)
(* and an error raised by a constraint or inside a trigger aborts the      *)
(* whole statement.  Two UPDATEs of the same row are serialised by the row *)
(* lock, the second one seeing the row the first one committed, so the     *)
(* interleavings of concurrent statements are the orders in which the      *)
(* actions are taken.  Any authenticated caller reaches the tables through *)
(* the data API, so the statements are limited by the GRANTs, the row      *)
(* level security policies and the table constraints only.                 *)
(*                                                                         *)
(* UUIDs are modelled as positive integers (they are compared with <,      *)
(* LEAST and GREATEST); timestamps are left out.                           *)
(***************************************************************************)
EXTENDS Integers, Sequences, FiniteSets, TLC

\* ---------------------------------------------------------------- bounds
NumUsers == 3
\* the users who send requests to each other; the others act on those
NumPeers == 2
MaxRequests == 2
MaxConnections == 2
MaxNotifications == 4
\* statements issued directly through the data API in one behaviour of Spec
MaxDirect == 1
\* the same in ApiSpec
MaxApiDirect == 2
\* resolve statements in flight at once, and requests, in ConcSpec
MaxInflight == 2
MaxConcRequests == 1

\* ------------------------------------------------------------- constants
Users == 1..NumUsers
Peers == 1..NumPeers
\* an id that references no row of public.profiles
NoSuchUser == NumUsers + 1
\* SQL NULL
NULL == "NULL"
StatusValues == {"pending", "accepted", "rejected"}
\* values a caller may put in the status column of a statement
StatusInputs == StatusValues \cup {NULL, "other"}

\* SQLSTATE codes
Success == "00000"
UniqueViolation == "23505"
CheckViolation == "23514"
ForeignKeyViolation == "23503"
InsufficientPrivilege == "42501"

\* alerts of handleSendConnectionRequest
AlertSent == "Connection request sent!"
AlertAlreadySent == "Connection request already sent!"
NoAlert == ""

VARIABLES
    connection_requests,  \* sequence of rows, in insertion order
    connections,          \* sequence of rows, in insertion order
    notifications,        \* sequence of rows, in insertion order
    messages,             \* sequence of rows, in insertion order
    profiles,             \* id -> row (the is_available column)
    user_locations,       \* user_id -> row (the location column), for the rows there are
    installed,            \* the definition of find_nearby_users in force
    nearbyUsers,          \* dashboard: the rows of the last proximity call
    nearbyQuery,          \* the caller and the arguments of that call
    nearbyCount,          \* dashboard: "People nearby"
    auth_users,           \* auth.users: id -> row (email, raw_user_meta_data)
    chatWindow,           \* the state and refs of the ChatWindow component
    floatingChat,         \* the state and refs of the FloatingChat component
    notificationBell,     \* the state of the NotificationBell component
    channels,             \* the realtime channels the supabase client holds
    net,                  \* responses and realtime events on their way to the browser
    now,                  \* Date.now()
    lastOp,               \* the last statement and its outcome
    direct,               \* number of statements issued through the data API directly
    inflight              \* resolve statements submitted and not yet executed

vars == <<connection_requests, connections, notifications, messages, profiles, user_locations,
          installed, nearbyUsers, nearbyQuery, nearbyCount, auth_users, chatWindow,
          floatingChat, notificationBell, channels, net, now, lastOp, direct, inflight>>
\* the state of the browser's components
browser == <<chatWindow, floatingChat, notificationBell, channels, net, now>>
ui == <<nearbyCount, browser>>
geo == <<profiles, user_locations, installed, nearbyUsers, nearbyQuery>>
db == <<connection_requests, connections, notifications>>

\* ------------------------------------------------------------ SQL helpers
\* a = b is TRUE (not NULL, not FALSE)
SqlEq(a, b) == a # NULL /\ b # NULL /\ a = b
\* a != b is TRUE (not NULL, not FALSE)
SqlNe(a, b) == a # NULL /\ b # NULL /\ a # b
LEAST(a, b) == IF a <= b THEN a ELSE b
GREATEST(a, b) == IF a >= b THEN a ELSE b

\* OLD of an INSERT trigger: the record whose fields are all NULL
NullRow == [id |-> 0, sender_id |-> 0, receiver_id |-> 0, status |-> NULL]
IsNullRow(r) == r.id = 0

\* profiles.full_name of a user
full_name(u) == <<"full_name", u>>

\* ------------------------------------------------- tables and constraints
\* profiles(id) referenced by sender_id and receiver_id
profiles_exists(u) == u \in Users

\* status TEXT CHECK (status IN ('pending','accepted','rejected')):
\* a CHECK passes when its expression is TRUE or NULL
connection_requests_status_check(status) ==
    status = NULL \/ status \in StatusValues

\* mutation: the table without UNIQUE(sender_id, receiver_id)
connection_requests_unique_absent(rows, exceptId, s, r) == TRUE

\* UNIQUE(sender_id, receiver_id): TRUE when no other row holds the pair
connection_requests_unique(rows, exceptId, s, r) ==
    \A i \in 1..Len(rows) :
        rows[i].id # exceptId => ~(rows[i].sender_id = s /\ rows[i].receiver_id = r)

\* CHECK (user_id_1 < user_id_2)
connections_check(u1, u2) == u1 < u2

\* mutation: the table without UNIQUE(user_id_1, user_id_2)
connections_unique_absent(rows, u1, u2) == TRUE

\* UNIQUE(user_id_1, user_id_2): TRUE when no row holds the pair
connections_unique(rows, u1, u2) ==
    \A i \in 1..Len(rows) : ~(rows[i].user_id_1 = u1 /\ rows[i].user_id_2 = u2)

\* ----------------------------------------------------- row level security
connection_requests_insert_policy(uid, row) == uid = row.sender_id

\* mutation: a policy that lets the sender update too
connection_requests_update_policy_either(uid, row) ==
    uid = row.receiver_id \/ uid = row.sender_id

\* USING and WITH CHECK are the same expression
connection_requests_update_policy(uid, row) == uid = row.receiver_id

connections_insert_policy(uid, row) == TRUE

\* ------------------------------------------------------ trigger functions
\* mutation: the trigger inserting (sender_id, receiver_id) as they are
create_connection_on_accept_unordered(OLDROW, NEWROW, conns) ==
    IF SqlEq(NEWROW.status, "accepted") /\ (OLDROW.status = NULL \/ SqlEq(OLDROW.status, "pending"))
    THEN LET u1 == NEWROW.sender_id
             u2 == NEWROW.receiver_id
         IN  IF ~connections_check(u1, u2)
             THEN [sqlstate |-> CheckViolation, connections |-> conns]
             ELSE IF ~connections_unique(conns, u1, u2)
             THEN [sqlstate |-> Success, connections |-> conns]
             ELSE [sqlstate |-> Success,
                   connections |-> Append(conns, [id |-> Len(conns) + 1,
                                                  user_id_1 |-> u1, user_id_2 |-> u2])]
    ELSE [sqlstate |-> Success, connections |-> conns]

\* mutation: the trigger without the test of NEW.status
create_connection_on_accept_any_status(OLDROW, NEWROW, conns) ==
    IF OLDROW.status = NULL \/ SqlEq(OLDROW.status, "pending")
    THEN LET u1 == LEAST(NEWROW.sender_id, NEWROW.receiver_id)
             u2 == GREATEST(NEWROW.sender_id, NEWROW.receiver_id)
         IN  IF ~connections_check(u1, u2)
             THEN [sqlstate |-> CheckViolation, connections |-> conns]
             ELSE IF ~connections_unique(conns, u1, u2)
             THEN [sqlstate |-> Success, connections |-> conns]
             ELSE [sqlstate |-> Success,
                   connections |-> Append(conns, [id |-> Len(conns) + 1,
                                                  user_id_1 |-> u1, user_id_2 |-> u2])]
    ELSE [sqlstate |-> Success, connections |-> conns]

\* returns [sqlstate, connections]
create_connection_on_accept(OLDROW, NEWROW, conns) ==
    IF SqlEq(NEWROW.status, "accepted") /\ (OLDROW.status = NULL \/ SqlEq(OLDROW.status, "pending"))
    THEN LET u1 == LEAST(NEWROW.sender_id, NEWROW.receiver_id)
             u2 == GREATEST(NEWROW.sender_id, NEWROW.receiver_id)
         IN  IF ~connections_check(u1, u2)
             THEN [sqlstate |-> CheckViolation, connections |-> conns]
             ELSE IF ~connections_unique(conns, u1, u2)
             THEN [sqlstate |-> Success, connections |-> conns]   \* ON CONFLICT DO NOTHING
             ELSE [sqlstate |-> Success,
                   connections |-> Append(conns, [id |-> Len(conns) + 1,
                                                  user_id_1 |-> u1, user_id_2 |-> u2])]
    ELSE [sqlstate |-> Success, connections |-> conns]

RequestNotification(NEWROW, nid) ==
    [id |-> nid, user_id |-> NEWROW.receiver_id, type |-> "connection_request",
     title |-> "New Connection Request",
     body |-> <<full_name(NEWROW.sender_id), " wants to connect with you">>,
     data |-> [connection_request_id |-> NEWROW.id, sender_id |-> NEWROW.sender_id,
               sender_name |-> full_name(NEWROW.sender_id)],
     is_read |-> FALSE]

AcceptedNotification(NEWROW, nid) ==
    [id |-> nid, user_id |-> NEWROW.sender_id, type |-> "connection_accepted",
     title |-> "Connection Accepted",
     body |-> <<full_name(NEWROW.receiver_id), " accepted your connection request">>,
     data |-> [connection_request_id |-> NEWROW.id, receiver_id |-> NEWROW.receiver_id,
               receiver_name |-> full_name(NEWROW.receiver_id)],
     is_read |-> FALSE]

\* mutation: the trigger announcing every update that leaves the status accepted
create_connection_request_notification_every_accept(OLDROW, NEWROW, notifs) ==
    LET n1 == IF SqlEq(NEWROW.status, "pending")
                 /\ (IsNullRow(OLDROW) \/ SqlNe(OLDROW.status, "pending"))
              THEN Append(notifs, RequestNotification(NEWROW, Len(notifs) + 1))
              ELSE notifs
    IN  IF SqlEq(NEWROW.status, "accepted")
        THEN Append(n1, AcceptedNotification(NEWROW, Len(n1) + 1))
        ELSE n1

\* returns the notifications table after the trigger
create_connection_request_notification(OLDROW, NEWROW, notifs) ==
    LET n1 == IF SqlEq(NEWROW.status, "pending")
                 /\ (IsNullRow(OLDROW) \/ SqlNe(OLDROW.status, "pending"))
              THEN Append(notifs, RequestNotification(NEWROW, Len(notifs) + 1))
              ELSE notifs
    IN  IF SqlEq(NEWROW.status, "accepted")
           /\ (OLDROW.status = NULL \/ SqlEq(OLDROW.status, "pending"))
        THEN Append(n1, AcceptedNotification(NEWROW, Len(n1) + 1))
        ELSE n1

\* ------------------------------------------------------------- statements
Outcome(code, n, reqs, conns, notifs) ==
    [sqlstate |-> code, rows |-> n, connection_requests |-> reqs,
     connections |-> conns, notifications |-> notifs]

Failed(code) == Outcome(code, 0, connection_requests, connections, notifications)

\* INSERT INTO connection_requests (sender_id, receiver_id, status) by uid;
\* AFTER INSERT fires on_connection_request_created
InsertRequestStmt(uid, s, r, st) ==
    LET NEWROW == [id |-> Len(connection_requests) + 1, sender_id |-> s,
                receiver_id |-> r, status |-> st]
    IN  IF ~connection_requests_insert_policy(uid, NEWROW) THEN Failed(InsufficientPrivilege)
        ELSE IF ~connection_requests_status_check(st) THEN Failed(CheckViolation)
        ELSE IF ~connection_requests_unique(connection_requests, NEWROW.id, s, r)
             THEN Failed(UniqueViolation)
        ELSE IF ~(profiles_exists(s) /\ profiles_exists(r)) THEN Failed(ForeignKeyViolation)
        ELSE Outcome(Success, 1, Append(connection_requests, NEWROW), connections,
                     create_connection_request_notification(NullRow, NEWROW, notifications))

\* UPDATE connection_requests SET sender_id = s, receiver_id = r, status = st
\* WHERE id = rid, by uid; AFTER UPDATE fires on_connection_request_accept and
\* then on_connection_request_updated (triggers fire in name order)
UpdateRequestStmt(uid, rid, s, r, st) ==
    IF ~(rid \in 1..Len(connection_requests)
         /\ connection_requests_update_policy(uid, connection_requests[rid]))
    THEN Outcome(Success, 0, connection_requests, connections, notifications)
    ELSE LET OLDROW == connection_requests[rid]
             NEWROW == [OLDROW EXCEPT !.sender_id = s, !.receiver_id = r, !.status = st]
             conn == create_connection_on_accept(OLDROW, NEWROW, connections)
         IN  IF ~connection_requests_update_policy(uid, NEWROW)
             THEN Failed(InsufficientPrivilege)
             ELSE IF ~connection_requests_status_check(st) THEN Failed(CheckViolation)
             ELSE IF ~connection_requests_unique(connection_requests, OLDROW.id, s, r)
                  THEN Failed(UniqueViolation)
             ELSE IF ~(profiles_exists(s) /\ profiles_exists(r))
                  THEN Failed(ForeignKeyViolation)
             ELSE IF conn.sqlstate # Success THEN Failed(conn.sqlstate)
             ELSE Outcome(Success, 1, [connection_requests EXCEPT ![rid] = NEWROW],
                          conn.connections,
                          create_connection_request_notification(OLDROW, NEWROW, notifications))

\* UPDATE connection_requests SET status = decision WHERE id = rid, by uid
ResolveRequestStmt(uid, rid, decision) ==
    UpdateRequestStmt(uid, rid, connection_requests[rid].sender_id,
                      connection_requests[rid].receiver_id, decision)

\* INSERT INTO connections (user_id_1, user_id_2) by uid
InsertConnectionStmt(uid, u1, u2) ==
    LET NEWROW == [id |-> Len(connections) + 1, user_id_1 |-> u1, user_id_2 |-> u2]
    IN  IF ~connections_insert_policy(uid, NEWROW) THEN Failed(InsufficientPrivilege)
        ELSE IF ~connections_check(u1, u2) THEN Failed(CheckViolation)
        ELSE IF ~connections_unique(connections, u1, u2) THEN Failed(UniqueViolation)
        ELSE IF ~(profiles_exists(u1) /\ profiles_exists(u2)) THEN Failed(ForeignKeyViolation)
        ELSE Outcome(Success, 1, connection_requests, Append(connections, NEWROW), notifications)

\* ---------------------------------------------------------------- actions
WithinBounds(out) ==
    /\ Len(out.connection_requests) <= MaxRequests
    /\ Len(out.connections) <= MaxConnections
    /\ Len(out.notifications) <= MaxNotifications

Apply(out) ==
    /\ WithinBounds(out)
    /\ connection_requests' = out.connection_requests
    /\ connections' = out.connections
    /\ notifications' = out.notifications
    /\ UNCHANGED <<messages, geo, ui, auth_users>>

\* the statement, the status it found in the row it changed, the status its
\* issuer had seen, what it answered and what the dashboard showed for it
Op(name, rid, seen, out, shown) ==
    [op |-> name,
     old |-> IF out.rows = 1 /\ rid \in 1..Len(connection_requests)
             THEN connection_requests[rid].status ELSE NULL,
     seen |-> IF out.rows = 1 THEN seen ELSE NULL,
     sqlstate |-> out.sqlstate, rows |-> out.rows, alert |-> shown]

\* the dashboard of user uid sends a request to userId
handleSendConnectionRequest(uid, userId) ==
    LET out == InsertRequestStmt(uid, uid, userId, "pending")
        shown == IF out.sqlstate = Success THEN AlertSent
                 ELSE IF out.sqlstate = UniqueViolation THEN AlertAlreadySent
                 ELSE NoAlert
    IN  /\ Apply(out)
        /\ lastOp' = Op("send", 0, NULL, out, shown)
        /\ UNCHANGED <<direct, inflight>>

\* a caller accepts or rejects a request
ResolveRequest(uid, rid, decision) ==
    LET out == ResolveRequestStmt(uid, rid, decision)
    IN  /\ Apply(out)
        /\ lastOp' = Op(decision, rid, connection_requests[rid].status, out, NoAlert)
        /\ UNCHANGED <<direct, inflight>>

\* a statement issued through the data API, outside the dashboard, that
\* took effect (one that fails or matches no row changes no table)
Direct(name, rid, out) ==
    /\ out.sqlstate = Success /\ out.rows = 1
    /\ direct' = direct + 1
    /\ Apply(out)
    /\ lastOp' = Op(name, rid, IF rid = 0 THEN NULL ELSE connection_requests[rid].status,
                    out, NoAlert)
    /\ UNCHANGED inflight

\* a caller inserts a request row
DirectInsertRequest(uid, s, r, st) ==
    Direct("insert", 0, InsertRequestStmt(uid, s, r, st))

\* a caller sets the status column of a request
DirectUpdateStatus(uid, rid, st) ==
    Direct("update", rid, ResolveRequestStmt(uid, rid, st))

\* a caller sets the sender_id column of a request
DirectUpdateSender(uid, rid, s) ==
    Direct("update", rid,
           UpdateRequestStmt(uid, rid, s, connection_requests[rid].receiver_id,
                             connection_requests[rid].status))

\* a caller sets the receiver_id column of a request
DirectUpdateReceiver(uid, rid, r) ==
    Direct("update", rid,
           UpdateRequestStmt(uid, rid, connection_requests[rid].sender_id, r,
                             connection_requests[rid].status))

\* a caller inserts a connection row
DirectInsertConnection(uid, u1, u2) ==
    Direct("connect", 0, InsertConnectionStmt(uid, u1, u2))

\* a caller submits an accept or a reject; the statement runs later
SubmitResolve(uid, rid, decision) ==
    /\ Len(inflight) < MaxInflight
    /\ inflight' = Append(inflight, [uid |-> uid, rid |-> rid, decision |-> decision,
                                     seen |-> connection_requests[rid].status])
    /\ UNCHANGED <<connection_requests, connections, notifications, messages, geo, ui, auth_users,
                   lastOp,
                   direct>>

\* the database runs a submitted statement
ExecResolve(k) ==
    LET m == inflight[k]
        out == ResolveRequestStmt(m.uid, m.rid, m.decision)
    IN  /\ Apply(out)
        /\ lastOp' = Op(m.decision, m.rid, m.seen, out, NoAlert)
        /\ inflight' = SubSeq(inflight, 1, k - 1) \o SubSeq(inflight, k + 1, Len(inflight))
        /\ UNCHANGED direct

\* the function the complete setup creates, and the one the debug script recreates
SetupVersion == "fix-database-function.sql"
DebugVersion == "middleware.ts"
NoQuery == [uid |-> 0, user_pos |-> 0, radius_km |-> 0]

\* an auth.users row with no email and no metadata: email is <<>> for NULL
\* or <<local part, domain>>
NoIdentityData == [email |-> <<>>, raw_user_meta_data |-> [username |-> NULL, full_name |-> NULL]]

\* no channel
NoChannel == 0

\* ChatWindow not rendered; FloatingChat and NotificationBell before their
\* effects ran
ClosedWindow == [mounted |-> FALSE, connection |-> 0, messages |-> <<>>, loading |-> FALSE,
                 channelRef |-> NoChannel]
NoSessions == [isOpen |-> FALSE, activeChat |-> 0, chatSessions |-> <<>>, channelsRef |-> <<>>]
NoBell == [mounted |-> FALSE, notifications |-> <<>>, unreadCount |-> 0, channel |-> NoChannel]

BrowserInit ==
    /\ chatWindow = ClosedWindow
    /\ floatingChat = NoSessions
    /\ notificationBell = NoBell
    /\ channels = {}
    /\ net = {}
    /\ now = 1

\* the components as they mount
UiInit == nearbyCount = 0 /\ BrowserInit

NoOp == [op |-> "none", old |-> NULL, seen |-> NULL, sqlstate |-> Success,
         rows |-> 0, alert |-> NoAlert]

Init ==
    /\ connection_requests = <<>>
    /\ connections = <<>>
    /\ notifications = <<>>
    /\ messages = <<>>
    /\ profiles = [u \in Users |-> [is_available |-> "true"]]
    /\ user_locations = <<>>
    /\ installed = SetupVersion
    /\ nearbyUsers = <<>>
    /\ nearbyQuery = NoQuery
    /\ UiInit
    /\ auth_users = [u \in Users |-> NoIdentityData]
    /\ lastOp = NoOp
    /\ direct = 0
    /\ inflight = <<>>

\* the requests a statement can name
RequestIds == 1..Len(connection_requests)

\* the statements of the data API, at most limit of them
DirectNext(limit) ==
    /\ direct < limit
    /\ \/ \E uid \in Users, s \in Users, r \in Users, st \in StatusInputs :
               DirectInsertRequest(uid, s, r, st)
       \/ \E uid \in Users, rid \in RequestIds, st \in StatusInputs :
               DirectUpdateStatus(uid, rid, st)
       \/ \E uid \in Users, rid \in RequestIds, s \in Users :
               DirectUpdateSender(uid, rid, s)
       \/ \E uid \in Users, rid \in RequestIds, r \in Users :
               DirectUpdateReceiver(uid, rid, r)
       \/ \E uid \in Users, u1 \in Users, u2 \in Users :
               DirectInsertConnection(uid, u1, u2)

SendNext ==
    \E uid \in Peers, userId \in Peers \cup {NoSuchUser} :
        handleSendConnectionRequest(uid, userId)

Next ==
    \/ SendNext
    \/ \E uid \in Users, rid \in RequestIds, decision \in {"accepted", "rejected"} :
           ResolveRequest(uid, rid, decision)
    \/ DirectNext(MaxDirect)

\* the dashboard's statements and the data API's, each statement atomic
Spec == Init /\ [][Next]_vars

ApiNext == DirectNext(MaxApiDirect)

\* the data API alone
ApiSpec == Init /\ [][ApiNext]_vars

ConcNext ==
    \/ Len(connection_requests) < MaxConcRequests /\ SendNext
    \/ \E uid \in Users, rid \in RequestIds, decision \in {"accepted", "rejected"} :
           SubmitResolve(uid, rid, decision)
    \/ \E k \in 1..Len(inflight) : ExecResolve(k)

\* requests resolved by statements that are in flight at the same time
ConcSpec == Init /\ [][ConcNext]_vars

\* ----------------------------------------------------------------- claims
RequestsOfPair(reqs, s, r) ==
    {i \in 1..Len(reqs) : reqs[i].sender_id = s /\ reqs[i].receiver_id = r}

ConnectionsOfPair(conns, a, b) ==
    {i \in 1..Len(conns) : {conns[i].user_id_1, conns[i].user_id_2} = {a, b}}

AcceptedNotifications(notifs, rid) ==
    {i \in 1..Len(notifs) : /\ notifs[i].type = "connection_accepted"
                            /\ notifs[i].data.connection_request_id = rid}

\* the rows a step appended to a table
Added(before, after) == {i \in 1..Len(after) : i > Len(before)}

\* C1: at most one request row exists for an ordered pair (sender, receiver)
\* at any time; a second send for a pair whose request is pending answers
\* 23505, which the dashboard shows as 'Connection request already sent!'
\* (and shows for no other outcome), adds no row and changes no table.
C1_OneRequestPerOrderedPair ==
    [][ /\ \A s \in Users, r \in Users :
               Cardinality(RequestsOfPair(connection_requests', s, r)) <= 1
        /\ \A uid \in Users, userId \in Users \cup {NoSuchUser} :
               handleSendConnectionRequest(uid, userId) =>
                   /\ (\E i \in RequestsOfPair(connection_requests, uid, userId) :
                           connection_requests[i].status = "pending")
                      => /\ lastOp'.sqlstate = UniqueViolation
                         /\ UNCHANGED db
                   /\ lastOp'.alert = AlertAlreadySent <=> lastOp'.sqlstate = UniqueViolation
                   /\ lastOp'.alert = AlertSent <=> lastOp'.sqlstate = Success
      ]_vars

\* a second send for a pending pair was answered with the conflict
C1_Witness ==
    /\ lastOp.op = "send"
    /\ lastOp.sqlstate = UniqueViolation
    /\ lastOp.alert = AlertAlreadySent
    /\ Len(connection_requests) >= 1
    /\ \A i \in 1..Len(connection_requests) : connection_requests[i].status = "pending"

\* C2 (as claimed): the status of a request only moves pending -> accepted or
\* pending -> rejected, and an accepted or rejected request never changes
\* its status again.
C2_StatusTerminal ==
    [][ \A i \in 1..Len(connection_requests) :
            connection_requests'[i].status # connection_requests[i].status =>
                /\ connection_requests[i].status = "pending"
                /\ connection_requests'[i].status \in {"accepted", "rejected"}
      ]_vars

\* C3: an accept, a reject or any other status update by a caller who is not
\* the receiver of the request changes no request, connection or notification.
C3_OnlyReceiverResolves ==
    [][ \A uid \in Users, rid \in RequestIds :
            uid # connection_requests[rid].receiver_id =>
                /\ \A decision \in {"accepted", "rejected"} :
                       ResolveRequest(uid, rid, decision) => UNCHANGED db /\ lastOp'.rows = 0
                /\ \A st \in StatusInputs :
                       ~DirectUpdateStatus(uid, rid, st)
      ]_vars

\* a caller who is not the receiver tried to resolve a pending request
C3_Witness ==
    /\ lastOp.op \in {"accepted", "rejected"}
    /\ lastOp.rows = 0
    /\ Len(connection_requests) >= 1
    /\ \A i \in 1..Len(connection_requests) : connection_requests[i].status = "pending"
    /\ connections = <<>>

\* C4: when the receiver accepts a pending request between two different
\* users, the request becomes accepted and afterwards exactly one connection
\* holds the pair, stored as (smaller id, larger id); it is a new row when no
\* connection held the pair before, and no other connection changes.
C4_AcceptCreatesCanonicalConnection ==
    [][ \A uid \in Users, rid \in RequestIds :
            ( /\ ResolveRequest(uid, rid, "accepted")
              /\ uid = connection_requests[rid].receiver_id
              /\ connection_requests[rid].status = "pending"
              /\ connection_requests[rid].sender_id # connection_requests[rid].receiver_id )
            => LET s == connection_requests[rid].sender_id
                   r == connection_requests[rid].receiver_id
                   of == ConnectionsOfPair(connections', s, r)
               IN  /\ lastOp'.sqlstate = Success
                   /\ connection_requests'[rid].status = "accepted"
                   /\ Cardinality(of) = 1
                   /\ \A i \in of : /\ connections'[i].user_id_1 = LEAST(s, r)
                                    /\ connections'[i].user_id_2 = GREATEST(s, r)
                   /\ SubSeq(connections', 1, Len(connections)) = connections
                   /\ Len(connections') = IF ConnectionsOfPair(connections, s, r) = {}
                                          THEN Len(connections) + 1 ELSE Len(connections)
      ]_vars

\* the receiver, who has the smaller id, accepted a pending request
C4_Witness ==
    /\ lastOp.op = "accepted" /\ lastOp.rows = 1 /\ lastOp.old = "pending"
    /\ Len(connection_requests) = 1
    /\ connection_requests[1].status = "accepted"
    /\ connection_requests[1].sender_id > connection_requests[1].receiver_id
    /\ connections = <<[id |-> 1, user_id_1 |-> connection_requests[1].receiver_id,
                        user_id_2 |-> connection_requests[1].sender_id]>>

\* C5: an accept that runs on a request that is already accepted, whether it
\* was submitted before or after the first accept ran, succeeds and changes
\* no table; under every interleaving of submitted accepts and rejects a
\* request has at most one connection_accepted notification and its pair at
\* most one connection, and exactly one of each once an accept of the pending
\* request has run.
C5_RepeatedAcceptIsNoOp ==
    [][ /\ \A k \in 1..Len(inflight) :
               ( /\ ExecResolve(k)
                 /\ inflight[k].decision = "accepted"
                 /\ inflight[k].uid = connection_requests[inflight[k].rid].receiver_id )
               => LET rid == inflight[k].rid
                      old == connection_requests[rid]
                  IN  /\ old.status = "accepted" =>
                             UNCHANGED db /\ lastOp'.sqlstate = Success
                      /\ (old.status = "pending" /\ old.sender_id # old.receiver_id) =>
                             /\ Cardinality(AcceptedNotifications(notifications', rid)) = 1
                             /\ Cardinality(ConnectionsOfPair(connections', old.sender_id,
                                                              old.receiver_id)) = 1
        /\ \A rid \in 1..Len(connection_requests') :
               /\ Cardinality(AcceptedNotifications(notifications', rid)) <= 1
               /\ Cardinality(ConnectionsOfPair(connections',
                                                connection_requests'[rid].sender_id,
                                                connection_requests'[rid].receiver_id)) <= 1
      ]_vars

\* an accept submitted while the request was pending ran after another accept
C5_Witness ==
    /\ lastOp.op = "accepted" /\ lastOp.rows = 1 /\ lastOp.sqlstate = Success
    /\ lastOp.seen = "pending" /\ lastOp.old = "accepted"
    /\ Len(connections) = 1
    /\ Cardinality(AcceptedNotifications(notifications, 1)) = 1

\* C6: every connection stores its participants as user_id_1 < user_id_2 and
\* no two connections hold the same pair, in either order.
C6_CanonicalUniqueConnections ==
    /\ \A i \in 1..Len(connections) : connections[i].user_id_1 < connections[i].user_id_2
    /\ \A i \in 1..Len(connections) :
           Cardinality(ConnectionsOfPair(connections, connections[i].user_id_1,
                                         connections[i].user_id_2)) = 1

\* the requests A -> B and B -> A are both accepted and one connection holds the pair
C6_Witness ==
    /\ Len(connection_requests) = 2
    /\ connection_requests[1].status = "accepted"
    /\ connection_requests[2].status = "accepted"
    /\ connection_requests[1].sender_id = connection_requests[2].receiver_id
    /\ connection_requests[1].receiver_id = connection_requests[2].sender_id
    /\ connection_requests[1].sender_id # connection_requests[1].receiver_id
    /\ lastOp.op = "accepted" /\ lastOp.rows = 1 /\ lastOp.old = "pending"
    /\ direct = 0
    /\ Len(connections) = 1

\* C7: a reject, by any caller and of a request in any status, adds no
\* connection and no connection_accepted notification.
C7_RejectCreatesNothing ==
    [][ \A uid \in Users, rid \in RequestIds :
            ResolveRequest(uid, rid, "rejected") =>
                /\ connections' = connections
                /\ \A i \in Added(notifications, notifications') :
                       notifications'[i].type # "connection_accepted"
      ]_vars

\* the receiver rejected a pending request
C7_Witness ==
    /\ lastOp.op = "rejected" /\ lastOp.rows = 1 /\ lastOp.old = "pending"
    /\ Len(connection_requests) = 1
    /\ connection_requests[1].status = "rejected"
    /\ connections = <<>>

\* C8 (as claimed): every step that creates a request with status pending or
\* moves a request to pending appends exactly one connection_request
\* notification, addressed to the receiver and carrying the sender's
\* full_name and the request's id.
C8_PendingNotifiesReceiver ==
    [][ \A i \in 1..Len(connection_requests') :
            ( /\ connection_requests'[i].status = "pending"
              /\ i \in 1..Len(connection_requests) =>
                     connection_requests[i].status # "pending" )
            => notifications' =
                   Append(notifications,
                          RequestNotification(connection_requests'[i], Len(notifications) + 1))
      ]_vars

\* C9 (as claimed): every step that creates a request with status accepted or
\* moves a request to accepted appends exactly one connection_accepted
\* notification addressed to the request's sender, and no request ever has
\* more than one connection_accepted notification.
C9_AcceptedNotifiesSender ==
    [][ \A i \in 1..Len(connection_requests') :
            /\ ( /\ connection_requests'[i].status = "accepted"
                 /\ i \in 1..Len(connection_requests) =>
                        connection_requests[i].status # "accepted" )
               => notifications' =
                      Append(notifications,
                             AcceptedNotification(connection_requests'[i],
                                                  Len(notifications) + 1))
            /\ Cardinality(AcceptedNotifications(notifications', i)) <= 1
      ]_vars

\* C10 (as claimed): every request row a step creates has status pending.
C10_InitialStatusPending ==
    [][ \A i \in Added(connection_requests, connection_requests') :
            connection_requests'[i].status = "pending"
      ]_vars

\* C11 (as claimed): an accept either changes nothing, or it leaves the
\* request accepted, a connection holding its pair and one more
\* connection_accepted notification for it; no accept applies only a part.
C11_AcceptAllOrNothing ==
    [][ \A uid \in Users, rid \in RequestIds :
            ResolveRequest(uid, rid, "accepted") =>
                \/ UNCHANGED db
                \/ /\ connection_requests'[rid].status = "accepted"
                   /\ ConnectionsOfPair(connections', connection_requests[rid].sender_id,
                                         connection_requests[rid].receiver_id) # {}
                   /\ notifications' =
                          Append(notifications,
                                 AcceptedNotification(connection_requests'[rid],
                                                      Len(notifications) + 1))
      ]_vars

\* C12 (as claimed): a connection row is only ever added by a step that moves
\* a request between the row's two participants to accepted; no statement of
\* an end user adds a connection by itself.
C12_ConnectionsOnlyByAccept ==
    [][ \A i \in Added(connections, connections') :
            \E rid \in RequestIds :
                /\ connection_requests[rid].status # "accepted"
                /\ connection_requests'[rid].status = "accepted"
                /\ {connection_requests'[rid].sender_id, connection_requests'[rid].receiver_id}
                       = {connections'[i].user_id_1, connections'[i].user_id_2}
      ]_vars

\* ------------------------------------------------ notifications statements
\* bounds of NotifSpec: requests, and statements issued directly
MaxNotifRequests == 1
MaxNotifDirect == 1

NotificationTypes == {"connection_request", "connection_accepted", "message"}

\* data JSONB DEFAULT '{}'
EmptyJson == <<>>

notifications_type_check(type) == type \in NotificationTypes

notifications_insert_policy(uid, row) == uid = row.user_id

\* USING and WITH CHECK are the same expression
notifications_update_policy(uid, row) == uid = row.user_id

\* INSERT INTO notifications (user_id, type, title, body) by uid
InsertNotificationStmt(uid, u, type) ==
    LET NEWROW == [id |-> Len(notifications) + 1, user_id |-> u, type |-> type,
                   title |-> "title", body |-> "body", data |-> EmptyJson,
                   is_read |-> FALSE]
    IN  IF ~notifications_insert_policy(uid, NEWROW) THEN Failed(InsufficientPrivilege)
        ELSE IF ~notifications_type_check(type) THEN Failed(CheckViolation)
        ELSE IF ~profiles_exists(u) THEN Failed(ForeignKeyViolation)
        ELSE Outcome(Success, 1, connection_requests, connections,
                     Append(notifications, NEWROW))

\* UPDATE notifications SET user_id = NEWROW.user_id, type = ..., is_read = ...
\* WHERE id = nid, by uid
UpdateNotificationStmt(uid, nid, NEWROW) ==
    IF ~(nid \in 1..Len(notifications)
         /\ notifications_update_policy(uid, notifications[nid]))
    THEN Outcome(Success, 0, connection_requests, connections, notifications)
    ELSE IF ~notifications_update_policy(uid, NEWROW) THEN Failed(InsufficientPrivilege)
    ELSE IF ~notifications_type_check(NEWROW.type) THEN Failed(CheckViolation)
    ELSE IF ~profiles_exists(NEWROW.user_id) THEN Failed(ForeignKeyViolation)
    ELSE Outcome(Success, 1, connection_requests, connections,
                 [notifications EXCEPT ![nid] = NEWROW])

\* mutation: the UPDATE without the test of user_id
mark_notification_read_any_user(uid, notification_id) ==
    IF notification_id \in 1..Len(notifications)
    THEN Outcome(Success, 1, connection_requests, connections,
                 [notifications EXCEPT ![notification_id].is_read = TRUE])
    ELSE Outcome(Success, 0, connection_requests, connections, notifications)

\* UPDATE public.notifications SET is_read = true
\* WHERE id = notification_id AND user_id = auth.uid(), as the function's owner
mark_notification_read(uid, notification_id) ==
    IF notification_id \in 1..Len(notifications)
       /\ notifications[notification_id].user_id = uid
    THEN Outcome(Success, 1, connection_requests, connections,
                 [notifications EXCEPT ![notification_id].is_read = TRUE])
    ELSE Outcome(Success, 0, connection_requests, connections, notifications)

\* NotificationBell: the user marks a notification read
markAsRead(uid, notificationId) ==
    LET out == mark_notification_read(uid, notificationId)
    IN  /\ Apply(out)
        /\ lastOp' = Op("read", 0, NULL, out, NoAlert)
        /\ UNCHANGED <<direct, inflight>>

\* a caller inserts a notification row
DirectInsertNotification(uid, u, type) ==
    Direct("notify", 0, InsertNotificationStmt(uid, u, type))

\* a caller sets the is_read column of a notification
DirectUpdateNotificationRead(uid, nid, b) ==
    Direct("renotify", 0,
           UpdateNotificationStmt(uid, nid, [notifications[nid] EXCEPT !.is_read = b]))

\* a caller sets the type and the title of a notification
DirectUpdateNotificationType(uid, nid, type) ==
    Direct("renotify", 0,
           UpdateNotificationStmt(uid, nid, [notifications[nid] EXCEPT !.type = type,
                                                                       !.title = "title"]))

\* a caller sets the user_id column of a notification
DirectUpdateNotificationUser(uid, nid, u) ==
    Direct("renotify", 0,
           UpdateNotificationStmt(uid, nid, [notifications[nid] EXCEPT !.user_id = u]))

\* the notifications a statement can name, and one that does not exist
NotificationIds == 1..Len(notifications)
NoSuchNotification == 0

DirectNotificationNext ==
    /\ direct < MaxNotifDirect
    /\ \/ \E uid \in Users, u \in Users, type \in NotificationTypes :
               DirectInsertNotification(uid, u, type)
       \/ \E uid \in Users, nid \in NotificationIds, b \in BOOLEAN :
               DirectUpdateNotificationRead(uid, nid, b)
       \/ \E uid \in Users, nid \in NotificationIds, type \in NotificationTypes :
               DirectUpdateNotificationType(uid, nid, type)
       \/ \E uid \in Users, nid \in NotificationIds, u \in Users :
               DirectUpdateNotificationUser(uid, nid, u)

NotifNext ==
    \/ Len(connection_requests) < MaxNotifRequests /\ SendNext
    \/ \E uid \in Users, rid \in RequestIds, decision \in {"accepted", "rejected"} :
           ResolveRequest(uid, rid, decision)
    \/ \E uid \in Users, nid \in NotificationIds \cup {NoSuchNotification} :
           markAsRead(uid, nid)
    \/ DirectNotificationNext

\* the notifications of the triggers, the bell's mark-read and the data API
NotifSpec == Init /\ [][NotifNext]_vars

\* C13 (as claimed): every notification row a step adds is the one a trigger
\* makes for a request that the same step created or changed, and a step
\* changes an existing notification at most by setting is_read to true.
C13_NotificationsOnlyByTriggers ==
    [][ /\ \A i \in Added(notifications, notifications') :
               \E rid \in 1..Len(connection_requests') :
                   /\ rid \in RequestIds => connection_requests'[rid] # connection_requests[rid]
                   /\ \/ notifications'[i] = RequestNotification(connection_requests'[rid], i)
                      \/ notifications'[i] = AcceptedNotification(connection_requests'[rid], i)
        /\ \A i \in NotificationIds :
               \/ notifications'[i] = notifications[i]
               \/ notifications'[i] = [notifications[i] EXCEPT !.is_read = TRUE]
      ]_vars

\* ----------------------------------------------------------------- messages
\* bounds of ChatSpec: requests, messages, and statements issued directly
MaxChatRequests == 1
MaxMessages == 2
MaxChatDirect == 1

MessageContents == {"hi", "ok"}

ConnectionIds == 1..Len(connections)
\* an id that references no row of public.connections
NoSuchConnection == 0

\* EXISTS (SELECT 1 FROM connections c WHERE c.id = cid
\*         AND (c.user_id_1 = auth.uid() OR c.user_id_2 = auth.uid()))
IsParticipant(uid, cid) ==
    /\ cid \in ConnectionIds
    /\ (connections[cid].user_id_1 = uid \/ connections[cid].user_id_2 = uid)

messages_select_policy(uid, row) == IsParticipant(uid, row.connection_id)

\* mutation: a policy that does not compare the caller with sender_id
messages_insert_policy_any_sender(uid, row) == IsParticipant(uid, row.connection_id)

messages_insert_policy(uid, row) ==
    uid = row.sender_id /\ IsParticipant(uid, row.connection_id)

\* USING and WITH CHECK are the same expression
messages_update_policy(uid, row) == IsParticipant(uid, row.connection_id)

MessageOutcome(code, n, msgs) == [sqlstate |-> code, rows |-> n, messages |-> msgs]

\* INSERT INTO messages (connection_id, sender_id, content) by uid
InsertMessageStmt(uid, cid, s, content) ==
    LET NEWROW == [id |-> Len(messages) + 1, connection_id |-> cid, sender_id |-> s,
                   content |-> content, is_read |-> FALSE]
    IN  IF ~messages_insert_policy(uid, NEWROW)
        THEN MessageOutcome(InsufficientPrivilege, 0, messages)
        ELSE IF ~(cid \in ConnectionIds /\ profiles_exists(s))
        THEN MessageOutcome(ForeignKeyViolation, 0, messages)
        ELSE MessageOutcome(Success, 1, Append(messages, NEWROW))

\* UPDATE messages SET (the columns of NEWROW) WHERE id = mid, by uid
UpdateMessageStmt(uid, mid, NEWROW) ==
    IF ~(mid \in 1..Len(messages) /\ messages_update_policy(uid, messages[mid]))
    THEN MessageOutcome(Success, 0, messages)
    ELSE IF ~messages_update_policy(uid, NEWROW)
    THEN MessageOutcome(InsufficientPrivilege, 0, messages)
    ELSE IF ~(NEWROW.connection_id \in ConnectionIds /\ profiles_exists(NEWROW.sender_id))
    THEN MessageOutcome(ForeignKeyViolation, 0, messages)
    ELSE MessageOutcome(Success, 1, [messages EXCEPT ![mid] = NEWROW])

\* the rows markMessagesAsRead of uid updates in connection cid
UnreadFor(uid, cid) ==
    {i \in 1..Len(messages) : /\ messages_update_policy(uid, messages[i])
                              /\ messages[i].connection_id = cid
                              /\ messages[i].is_read = FALSE
                              /\ messages[i].sender_id # uid}

\* UPDATE messages SET is_read = true WHERE connection_id = cid
\* AND is_read = false AND sender_id <> uid, by uid
MarkReadStmt(uid, cid) ==
    MessageOutcome(Success, Cardinality(UnreadFor(uid, cid)),
                   [i \in 1..Len(messages) |->
                       IF i \in UnreadFor(uid, cid)
                       THEN [messages[i] EXCEPT !.is_read = TRUE] ELSE messages[i]])

\* SELECT * FROM messages WHERE connection_id = cid ORDER BY created_at, by uid
fetchMessages(msgs, uid, cid) ==
    SelectSeq(msgs, LAMBDA m : m.connection_id = cid /\ messages_select_policy(uid, m))

\* SELECT count(*) FROM messages WHERE connection_id = cid AND is_read = false
\* AND sender_id <> uid, by uid
unread_count(msgs, uid, cid) ==
    Cardinality({i \in 1..Len(msgs) : /\ messages_select_policy(uid, msgs[i])
                                      /\ msgs[i].connection_id = cid
                                      /\ msgs[i].is_read = FALSE
                                      /\ msgs[i].sender_id # uid})

ApplyMessages(out) ==
    /\ Len(out.messages) <= MaxMessages
    /\ messages' = out.messages
    /\ UNCHANGED <<connection_requests, connections, notifications, geo, ui, auth_users,
                 inflight>>

\* ChatWindow of uid on connection cid sends content
sendMessage(uid, cid, content) ==
    LET out == InsertMessageStmt(uid, cid, uid, content)
    IN  /\ ApplyMessages(out)
        /\ lastOp' = Op("message", 0, NULL, out, NoAlert)
        /\ UNCHANGED direct

\* ChatWindow of uid on connection cid marks the other's messages read
markMessagesAsRead(uid, cid) ==
    LET out == MarkReadStmt(uid, cid)
    IN  /\ ApplyMessages(out)
        /\ lastOp' = Op("markread", 0, NULL, out, NoAlert)
        /\ UNCHANGED direct

\* a caller inserts a message in the name of another user
DirectInsertMessage(uid, cid, s, content) ==
    LET out == InsertMessageStmt(uid, cid, s, content)
    IN  /\ s # uid
        /\ ApplyMessages(out)
        /\ lastOp' = Op("forge", 0, NULL, out, NoAlert)
        /\ UNCHANGED direct

\* a statement on messages issued through the data API that took effect
DirectMessage(out) ==
    /\ out.sqlstate = Success /\ out.rows = 1
    /\ direct' = direct + 1
    /\ ApplyMessages(out)
    /\ lastOp' = Op("edit", 0, NULL, out, NoAlert)

\* a caller sets the is_read column of a message
DirectUpdateMessageRead(uid, mid, b) ==
    DirectMessage(UpdateMessageStmt(uid, mid, [messages[mid] EXCEPT !.is_read = b]))

\* a caller sets the content column of a message
DirectUpdateMessageContent(uid, mid, content) ==
    DirectMessage(UpdateMessageStmt(uid, mid, [messages[mid] EXCEPT !.content = content]))

\* a caller sets the sender_id column of a message
DirectUpdateMessageSender(uid, mid, s) ==
    DirectMessage(UpdateMessageStmt(uid, mid, [messages[mid] EXCEPT !.sender_id = s]))

MessageIds == 1..Len(messages)

DirectMessageNext ==
    /\ direct < MaxChatDirect
    /\ \/ \E uid \in Users, mid \in MessageIds, b \in BOOLEAN :
               DirectUpdateMessageRead(uid, mid, b)
       \/ \E uid \in Users, mid \in MessageIds, content \in MessageContents :
               DirectUpdateMessageContent(uid, mid, content)
       \/ \E uid \in Users, mid \in MessageIds, s \in Users :
               DirectUpdateMessageSender(uid, mid, s)

ChatNext ==
    \/ Len(connection_requests) < MaxChatRequests /\ SendNext
    \/ \E uid \in Users, rid \in RequestIds : ResolveRequest(uid, rid, "accepted")
    \/ \E uid \in Users, cid \in ConnectionIds \cup {NoSuchConnection},
          content \in MessageContents : sendMessage(uid, cid, content)
    \/ \E uid \in Users, cid \in ConnectionIds \cup {NoSuchConnection} :
           markMessagesAsRead(uid, cid)
    \/ \E uid \in Users, cid \in ConnectionIds \cup {NoSuchConnection}, s \in Users,
          content \in MessageContents : DirectInsertMessage(uid, cid, s, content)
    \/ DirectMessageNext

\* two users connect and chat; a third user and the data API act on their messages
ChatSpec == Init /\ [][ChatNext]_vars

C15_MessagesOnlyMarkedRead ==
    [][ /\ Len(messages') >= Len(messages)
        /\ \A i \in MessageIds :
               /\ messages'[i].id = messages[i].id
               /\ messages'[i].content = messages[i].content
               /\ messages'[i].sender_id = messages[i].sender_id
               /\ messages'[i].connection_id = messages[i].connection_id
        /\ \A uid \in Users, mid \in MessageIds :
               ( /\ \E b \in BOOLEAN : DirectUpdateMessageRead(uid, mid, b)
                 /\ messages'[mid].is_read # messages[mid].is_read )
               => /\ uid # messages[mid].sender_id
                  /\ IsParticipant(uid, messages[mid].connection_id)
        /\ \A uid \in Users, cid \in ConnectionIds, mid \in MessageIds :
               ( /\ markMessagesAsRead(uid, cid)
                 /\ messages'[mid].is_read # messages[mid].is_read )
               => /\ uid # messages[mid].sender_id
                  /\ IsParticipant(uid, messages[mid].connection_id)
      ]_vars

\* the participant of connection cid who is not uid
OtherParticipant(uid, cid) ==
    IF connections[cid].user_id_1 = uid THEN connections[cid].user_id_2
                                        ELSE connections[cid].user_id_1

\* C16 (as claimed): for a participant of a connection the unread count is
\* the number of unread messages of the connection sent by the other
\* participant; markMessagesAsRead brings it to zero, changes no message the
\* reader sent, and changes nothing when the count is already zero.
C16_UnreadCount ==
    [][ \A cid \in ConnectionIds :
          \A uid \in {connections[cid].user_id_1, connections[cid].user_id_2} :
            /\ unread_count(messages', uid, cid) =
                   Cardinality({i \in 1..Len(messages') :
                                   /\ messages'[i].connection_id = cid
                                   /\ messages'[i].sender_id = OtherParticipant(uid, cid)
                                   /\ messages'[i].is_read = FALSE})
            /\ markMessagesAsRead(uid, cid) =>
                   /\ unread_count(messages', uid, cid) = 0
                   /\ \A i \in MessageIds :
                          messages[i].sender_id = uid => messages'[i] = messages[i]
                   /\ unread_count(messages, uid, cid) = 0 => messages' = messages
      ]_vars

\* ---------------------------------------------------------------- proximity
\* A location is a point of a line, given in meters from its origin, so that
\* the distance of two locations is a whole number of meters; a geography
\* value is <<p>> for the point p and <<>> for NULL.  Booleans of the
\* database are "true", "false" and NULL.

\* LIMIT 100
ResultLimit == 100

\* inputs of NearbySpec
Positions == {0, 2000, 2001}
QueryPositions == {0, 1}
RadiusInputs == {0, 2}
AvailabilityInputs == {"true", "false", NULL}
GeographyInputs == {<<>>} \cup {<<p>> : p \in Positions}
\* a population larger than the LIMIT
LargeN == ResultLimit + 3

\* ST_MakePoint(user_lng, user_lat)::geography
ST_MakePoint(user_pos) == <<user_pos>>

\* ST_Distance of two geographies that are not NULL, in meters
ST_Distance(a, b) == IF a[1] >= b[1] THEN a[1] - b[1] ELSE b[1] - a[1]

\* mutation: a test that lets one more meter pass
ST_DWithin_loose(a, b, r) == a # <<>> /\ b # <<>> /\ ST_Distance(a, b) <= r + 1

\* ST_DWithin(a, b, r) is TRUE (not NULL, not FALSE)
ST_DWithin(a, b, r) == a # <<>> /\ b # <<>> /\ ST_Distance(a, b) <= r

\* x / 1000.0, kept exact as the fraction <<numerator, denominator>>
Div1000(x) == <<x, 1000>>
FracLess(a, b) == a[1] * b[2] < b[1] * a[2]
FracLeq(a, b) == a[1] * b[2] <= b[1] * a[2]

profiles_select_policy(uid, id) == SqlEq(profiles[id].is_available, "true") \/ uid = id

user_locations_select_policy(uid, user_id) == uid = user_id

\* FROM profiles p INNER JOIN user_locations ul ON p.id = ul.user_id
JoinedIds == DOMAIN profiles \cap DOMAIN user_locations

\* mutation: the WHERE clause without the test of is_available
NearbyWhere_any_availability(uid, id, user_pos, radius_km) ==
    /\ id # uid
    /\ ST_DWithin(ST_MakePoint(user_pos), user_locations[id].location, radius_km * 1000)

\* WHERE p.is_available = true AND p.id != COALESCE(auth.uid(), ...)
\* AND ST_DWithin(..., radius_km * 1000)
NearbyWhere(uid, id, user_pos, radius_km) ==
    /\ SqlEq(profiles[id].is_available, "true")
    /\ id # uid
    /\ ST_DWithin(ST_MakePoint(user_pos), user_locations[id].location, radius_km * 1000)

\* WHERE p.is_available = true AND ST_DWithin(..., radius_km * 1000), on the
\* rows the caller's policies let the function see (it runs as its invoker)
NearbyWhereDebug(uid, id, user_pos, radius_km) ==
    /\ profiles_select_policy(uid, id)
    /\ user_locations_select_policy(uid, id)
    /\ SqlEq(profiles[id].is_available, "true")
    /\ ST_DWithin(ST_MakePoint(user_pos), user_locations[id].location, radius_km * 1000)

\* the select list of the complete setup, for a user stored at location:
\* p.id, ST_X(ul.location::geometry) AS longitude (ST_Y likewise; positions
\* have one coordinate here) and ST_Distance(...) / 1000.0 AS distance_km
NearbySelect(id, user_pos, location) ==
    [id |-> id,
     longitude |-> location[1],
     distance_km |-> Div1000(ST_Distance(ST_MakePoint(user_pos), location))]

NearbyRow(id, user_pos) == NearbySelect(id, user_pos, user_locations[id].location)

\* the select list of the debug script: p.id and distance_km, no coordinates
NearbyRowDebug(id, user_pos) ==
    [id |-> id,
     distance_km |-> Div1000(ST_Distance(ST_MakePoint(user_pos), user_locations[id].location))]

\* the ids of S in the order of a scan
Scan(S) == SelectSeq([k \in 1..Cardinality(DOMAIN profiles) |-> k], LAMBDA k : k \in S)

\* ORDER BY distance_km ASC; rows of equal distance come in an order the
\* database chooses (tie)
OrderByDistance(rows, tie) ==
    SortSeq(rows, LAMBDA a, b :
                \/ FracLess(a.distance_km, b.distance_km)
                \/ /\ a.distance_km = b.distance_km
                   /\ IF tie = "asc" THEN a.id < b.id ELSE a.id > b.id)

\* LIMIT n
Limit(rows, n) == IF Len(rows) <= n THEN rows ELSE SubSeq(rows, 1, n)

\* find_nearby_users of the complete setup (SECURITY DEFINER), called by uid
find_nearby_users(uid, user_pos, radius_km, tie) ==
    LET ids == Scan({id \in JoinedIds : NearbyWhere(uid, id, user_pos, radius_km)})
        rows == [k \in 1..Len(ids) |-> NearbyRow(ids[k], user_pos)]
    IN  Limit(OrderByDistance(rows, tie), ResultLimit)

\* find_nearby_users as the debug script recreates it, called by uid
find_nearby_users_debug(uid, user_pos, radius_km, tie) ==
    LET ids == Scan({id \in JoinedIds : NearbyWhereDebug(uid, id, user_pos, radius_km)})
        rows == [k \in 1..Len(ids) |-> NearbyRowDebug(ids[k], user_pos)]
    IN  OrderByDistance(rows, tie)

\* the outcomes of the rpc call: rows, or an error (the request or the
\* function failed)
RpcOutcomes == {"data", "error"}
RpcError == "rpc error"

\* the dashboard of uid, located at user_pos, asks for the users nearby
\* (radius_km is 2 in the dashboard; the function takes any)
fetchNearbyUsers(uid, user_pos, radius_km, tie, rpc) ==
    LET data == IF installed = SetupVersion
                THEN find_nearby_users(uid, user_pos, radius_km, tie)
                ELSE find_nearby_users_debug(uid, user_pos, radius_km, tie)
        users == IF rpc = "error" THEN <<>> ELSE data
    IN  /\ nearbyUsers' = users
        /\ nearbyCount' = Len(users)
        /\ nearbyQuery' = [uid |-> uid, user_pos |-> user_pos, radius_km |-> radius_km]
        /\ lastOp' = [NoOp EXCEPT !.op = "nearby", !.rows = Len(users),
                                  !.sqlstate = IF rpc = "error" THEN RpcError ELSE Success]
        /\ UNCHANGED <<db, messages, profiles, user_locations, installed, auth_users, browser,
                     direct, inflight>>

\* every population of the users, and two of more users than the LIMIT: one
\* with all distances different, one with many equal distances
NearbyInit ==
    /\ \/ /\ profiles \in [Users -> [is_available : AvailabilityInputs]]
          /\ \E D \in SUBSET Users : user_locations \in [D -> [location : GeographyInputs]]
       \/ /\ profiles = [id \in 1..LargeN |-> [is_available |-> "true"]]
          /\ \/ user_locations = [id \in 1..LargeN |-> [location |-> <<id>>]]
             \/ user_locations = [id \in 1..LargeN |-> [location |-> <<(id % 2) * 1000>>]]
    /\ installed \in {SetupVersion, DebugVersion}
    /\ nearbyUsers = <<>>
    /\ nearbyQuery = NoQuery
    /\ UiInit
    /\ auth_users = [u \in Users |-> NoIdentityData]
    /\ lastOp = NoOp
    /\ connection_requests = <<>>
    /\ connections = <<>>
    /\ notifications = <<>>
    /\ messages = <<>>
    /\ direct = 0
    /\ inflight = <<>>

NearbyNext ==
    \E uid \in Users, user_pos \in QueryPositions, radius_km \in RadiusInputs,
       tie \in {"asc", "desc"}, rpc \in RpcOutcomes :
        fetchNearbyUsers(uid, user_pos, radius_km, tie, rpc)

\* proximity calls on a stored population
NearbySpec == NearbyInit /\ [][NearbyNext]_vars

\* C17 (as claimed): no row of a proximity result is the caller's own.
C17_NeverReturnsRequester ==
    \A k \in 1..Len(nearbyUsers) : nearbyUsers[k].id # nearbyQuery.uid

\* C18: every user of a proximity result has is_available = true; a user
\* whose flag is false (or NULL) is never returned, wherever they are and
\* whoever asks.
C18_NeverReturnsUnavailable ==
    \A k \in 1..Len(nearbyUsers) : profiles[nearbyUsers[k].id].is_available = "true"

\* a call returned a user although an unavailable one is within the radius too
C18_Witness ==
    /\ nearbyUsers # <<>>
    /\ installed = SetupVersion
    /\ \E id \in JoinedIds :
           /\ profiles[id].is_available = "false"
           /\ id # nearbyQuery.uid
           /\ ST_DWithin(ST_MakePoint(nearbyQuery.user_pos), user_locations[id].location,
                         nearbyQuery.radius_km * 1000)

\* C19: every row of a proximity result has distance_km <= radius_km, the
\* radius itself included, and its distance_km is the distance in meters
\* between the caller's position and the user's location, divided by 1000.
C19_WithinRadius ==
    \A k \in 1..Len(nearbyUsers) :
        LET row == nearbyUsers[k]
            meters == ST_Distance(ST_MakePoint(nearbyQuery.user_pos),
                                  user_locations[row.id].location)
        IN  /\ row.distance_km[1] <= nearbyQuery.radius_km * row.distance_km[2]
            /\ meters <= nearbyQuery.radius_km * 1000
            /\ row.distance_km[1] = meters /\ row.distance_km[2] = 1000

\* a call returned a user who is exactly radius_km away, and left out one
\* who is a meter further
C19_Witness ==
    /\ nearbyQuery.radius_km = 2
    /\ \E k \in 1..Len(nearbyUsers) : nearbyUsers[k].distance_km = <<2000, 1000>>
    /\ \E id \in JoinedIds :
           /\ profiles[id].is_available = "true"
           /\ id # nearbyQuery.uid
           /\ user_locations[id].location # <<>>
           /\ ST_Distance(ST_MakePoint(nearbyQuery.user_pos),
                          user_locations[id].location) = 2001
           /\ \A k \in 1..Len(nearbyUsers) : nearbyUsers[k].id # id

\* the users the claims let a proximity call return: available, located
\* within the radius, and not the caller
Qualifying ==
    {id \in JoinedIds : /\ profiles[id].is_available = "true"
                        /\ id # nearbyQuery.uid
                        /\ ST_DWithin(ST_MakePoint(nearbyQuery.user_pos),
                                      user_locations[id].location,
                                      nearbyQuery.radius_km * 1000)}

\* C20 (as claimed): a proximity result is sorted ascending by distance_km
\* and has at most 100 rows; when more than 100 users qualify it has 100
\* rows and no user left out is nearer than a user returned.
C20_SortedAndCapped ==
    nearbyQuery # NoQuery =>
        /\ \A k \in 1..Len(nearbyUsers) - 1 :
               FracLeq(nearbyUsers[k].distance_km, nearbyUsers[k + 1].distance_km)
        /\ Len(nearbyUsers) <= ResultLimit
        /\ Cardinality(Qualifying) > ResultLimit =>
               /\ Len(nearbyUsers) = ResultLimit
               /\ \A k \in 1..Len(nearbyUsers) : nearbyUsers[k].id \in Qualifying
               /\ \A id \in Qualifying :
                      (\A k \in 1..Len(nearbyUsers) : nearbyUsers[k].id # id) =>
                          \A k \in 1..Len(nearbyUsers) :
                              nearbyUsers[k].distance_km[1] <=
                                  ST_Distance(ST_MakePoint(nearbyQuery.user_pos),
                                              user_locations[id].location)

\* the point as far from user_pos as location, on the other side
Mirror(user_pos, location) == <<2 * user_pos - location[1]>>

\* C21 (as claimed): what a proximity result tells its caller about another
\* user depends on that user's distance only, never on where the user is:
\* the row is the one the call would return with the user stored at the
\* point of equal distance on the other side of the caller.
C21_CoordinatesNotRevealed ==
    \A k \in 1..Len(nearbyUsers) :
        LET row == nearbyUsers[k]
        IN  row.id # nearbyQuery.uid =>
                row = NearbySelect(row.id, nearbyQuery.user_pos,
                                   Mirror(nearbyQuery.user_pos, user_locations[row.id].location))

\* C22 (as claimed): after a proximity call that failed, the dashboard does
\* not show what it shows after a call that found nobody: an empty list of
\* nearby users and "People nearby: 0".
C22_ErrorDiffersFromEmpty ==
    (lastOp.op = "nearby" /\ lastOp.sqlstate = RpcError) =>
        ~(nearbyUsers = <<>> /\ nearbyCount = 0)

\* C23: a mark-read call by uid on notification nid sets is_read of that
\* notification to true when it exists and belongs to uid, and changes no
\* other notification; on another user's notification, or on an id that
\* does not exist, it changes nothing, and on a notification already read
\* it changes nothing.
C23_MarkReadOnlyOwn ==
    [][ lastOp'.op = "read" =>
        \A uid \in Users, nid \in NotificationIds \cup {NoSuchNotification} :
            markAsRead(uid, nid) =>
                LET owned == /\ nid \in 1..Len(notifications)
                             /\ notifications[nid].user_id = uid
                IN  /\ Len(notifications') = Len(notifications)
                    /\ \A i \in 1..Len(notifications) :
                           notifications'[i] =
                               IF i = nid /\ owned
                               THEN [notifications[i] EXCEPT !.is_read = TRUE]
                               ELSE notifications[i]
                    /\ ~owned => notifications' = notifications
                    /\ (owned /\ notifications[nid].is_read = TRUE) =>
                           notifications' = notifications
                    /\ UNCHANGED <<connection_requests, connections>> ]_vars

\* a user has marked a notification of theirs read while another user has
\* an unread one
C23_Witness ==
    /\ lastOp.op = "read" /\ lastOp.rows = 1
    /\ \E i, j \in 1..Len(notifications) :
           /\ notifications[i].is_read = TRUE
           /\ notifications[j].is_read = FALSE
           /\ notifications[i].user_id # notifications[j].user_id

\* the request a -> b with which RejSpec starts is stored with status rejected
Rejected(a, b) ==
    /\ notifications[1].data.sender_id = a /\ notifications[1].user_id = b
    /\ \E i \in 1..Len(connection_requests) : /\ connection_requests[i].id = 1
                                              /\ connection_requests[i].status = "rejected"

\* the dashboard of a has just created a request a -> b
Resent(a, b) ==
    /\ lastOp.op = "send" /\ lastOp.sqlstate = Success
    /\ connection_requests # <<>>
    /\ connection_requests[Len(connection_requests)].sender_id = a
    /\ connection_requests[Len(connection_requests)].receiver_id = b

\* the state after a peer has sent a request to another and the receiver
\* has rejected it
RejInit ==
    /\ \E a \in Peers : \E b \in Peers \ {a} :
           LET NEWROW == [id |-> 1, sender_id |-> a, receiver_id |-> b, status |-> "pending"]
           IN  /\ connection_requests = <<[NEWROW EXCEPT !.status = "rejected"]>>
               /\ notifications = <<RequestNotification(NEWROW, 1)>>
    /\ connections = <<>>
    /\ messages = <<>>
    /\ profiles = [u \in Users |-> [is_available |-> "true"]]
    /\ user_locations = <<>>
    /\ installed = SetupVersion
    /\ nearbyUsers = <<>>
    /\ nearbyQuery = NoQuery
    /\ UiInit
    /\ auth_users = [u \in Users |-> NoIdentityData]
    /\ lastOp = NoOp
    /\ direct = 0
    /\ inflight = <<>>

\* the dashboards and the data API, from a rejected request on
RejSpec == RejInit /\ [][Next]_vars

\* C24 (as claimed): once a request a -> b is rejected, no later send of a
\* to b succeeds.  RejSpec starts where the request has been rejected, so
\* every state of it is later.
C24_RejectedBlocksResend ==
    \A a \in Peers : \A b \in Peers \ {a} : Rejected(a, b) => ~Resent(a, b)

\* ---------------------------------------------------------------------
\* Identity provisioning: auth.users, handle_new_user and the profiles of
\* the identities
\* ---------------------------------------------------------------------

MaxProfileDirect == 1

\* the identities of ProfSpec
IdentityIds == Users

\* inputs of a sign-up: the email (<<>> for none) and the handle given in
\* the metadata
EmailInputs == {<<>>, <<"a", "x">>, <<"a", "y">>}
HandleInputs == {NULL, "h"}

\* inputs of a profile update
UsernameInputs == {"a", "z"}
ThemeValues == {"light", "dark", "system"}
ThemeInputs == {"dark", "neon"}

\* SPLIT_PART(email, '@', 1); NULL for a NULL email
SPLIT_PART(email) == IF email = <<>> THEN NULL ELSE email[1]

\* 'user_' || substr(id::text, 1, 8)
IdUsername(id) == CASE id = 1 -> "user_1" [] id = 2 -> "user_2" [] OTHER -> "user_3"

COALESCE(a, b, c) == IF a # NULL THEN a ELSE IF b # NULL THEN b ELSE c

\* username TEXT UNIQUE NOT NULL, for the row of id
profiles_username_unique(id, username) ==
    \A j \in DOMAIN profiles \ {id} : profiles[j].username # username

\* theme TEXT CHECK (theme IN ('light', 'dark', 'system'))
profiles_theme_check(theme) == theme = NULL \/ theme \in ThemeValues

profiles_insert_policy(uid, id) == uid = id

profiles_update_policy(uid, id) == uid = id

\* the table with the row of id set
WithProfile(id, row) ==
    [j \in DOMAIN profiles \cup {id} |-> IF j = id THEN row ELSE profiles[j]]

\* the row handle_new_user inserts for the auth.users row NEWROW of id
DefaultProfile(id, NEWROW) ==
    [username |-> COALESCE(NEWROW.raw_user_meta_data.username, SPLIT_PART(NEWROW.email),
                           IdUsername(id)),
     full_name |-> COALESCE(NEWROW.raw_user_meta_data.full_name, SPLIT_PART(NEWROW.email),
                            "User"),
     theme |-> "system",
     is_available |-> "true"]

\* mutation: ON CONFLICT (id) DO UPDATE instead of DO NOTHING
handle_new_user_overwrite(id, NEWROW) ==
    LET row == DefaultProfile(id, NEWROW)
    IN  IF ~profiles_username_unique(id, row.username)
        THEN [sqlstate |-> UniqueViolation, profiles |-> profiles]
        ELSE [sqlstate |-> Success, profiles |-> WithProfile(id, row)]

\* handle_new_user: INSERT INTO public.profiles (id, username, full_name,
\* theme) ... ON CONFLICT (id) DO NOTHING, as the function's owner
handle_new_user(id, NEWROW) ==
    LET row == DefaultProfile(id, NEWROW)
    IN  IF id \in DOMAIN profiles
        THEN [sqlstate |-> Success, profiles |-> profiles]
        ELSE IF ~profiles_username_unique(id, row.username)
        THEN [sqlstate |-> UniqueViolation, profiles |-> profiles]
        ELSE [sqlstate |-> Success, profiles |-> WithProfile(id, row)]

ProfileOp(name, code, n) == [NoOp EXCEPT !.op = name, !.sqlstate = code, !.rows = n]

ProfileFrame ==
    UNCHANGED <<db, messages, user_locations, installed, nearbyUsers, nearbyQuery, ui,
                inflight>>

\* the identity provider creates an identity: INSERT INTO auth.users fires
\* on_auth_user_created; an error of the trigger aborts the INSERT
SignUp(id, email, handle) ==
    LET NEWROW == [email |-> email,
                   raw_user_meta_data |-> [username |-> handle, full_name |-> NULL]]
        out == handle_new_user(id, NEWROW)
    IN  /\ id \notin DOMAIN auth_users
        /\ IF out.sqlstate = Success
           THEN /\ auth_users' = [j \in DOMAIN auth_users \cup {id} |->
                                      IF j = id THEN NEWROW ELSE auth_users[j]]
                /\ profiles' = out.profiles
           ELSE UNCHANGED <<auth_users, profiles>>
        /\ lastOp' = ProfileOp("signup", out.sqlstate, IF out.sqlstate = Success THEN 1 ELSE 0)
        /\ UNCHANGED direct
        /\ ProfileFrame

\* the hook runs again for an identity there is
RunHookAgain(id) ==
    LET out == handle_new_user(id, auth_users[id])
    IN  /\ id \in DOMAIN auth_users
        /\ profiles' = out.profiles
        /\ lastOp' = ProfileOp("hook", out.sqlstate, 0)
        /\ UNCHANGED <<auth_users, direct>>
        /\ ProfileFrame

\* the identity is deleted: id UUID REFERENCES auth.users(id) ON DELETE
\* CASCADE removes its profile
DeleteIdentity(id) ==
    /\ id \in DOMAIN auth_users
    /\ auth_users' = [j \in DOMAIN auth_users \ {id} |-> auth_users[j]]
    /\ profiles' = [j \in DOMAIN profiles \ {id} |-> profiles[j]]
    /\ lastOp' = ProfileOp("unregister", Success, 1)
    /\ UNCHANGED direct
    /\ ProfileFrame

\* INSERT INTO profiles (id, username, full_name) by uid
DirectInsertProfile(uid, id, username) ==
    LET row == [username |-> username, full_name |-> "User", theme |-> "system",
                is_available |-> "true"]
        code == IF ~profiles_insert_policy(uid, id) THEN InsufficientPrivilege
                ELSE IF id \in DOMAIN profiles \/ ~profiles_username_unique(id, username)
                     THEN UniqueViolation
                ELSE IF id \notin DOMAIN auth_users THEN ForeignKeyViolation
                ELSE Success
    IN  /\ uid \in DOMAIN auth_users
        /\ profiles' = IF code = Success THEN WithProfile(id, row) ELSE profiles
        /\ lastOp' = ProfileOp("insert", code, IF code = Success THEN 1 ELSE 0)
        /\ direct' = direct + 1
        /\ UNCHANGED auth_users
        /\ ProfileFrame

\* UPDATE profiles SET username = ..., theme = ... WHERE id = id, by uid
DirectUpdateProfile(uid, id, username, theme) ==
    LET seen == id \in DOMAIN profiles /\ profiles_update_policy(uid, id)
        code == IF ~seen THEN Success
                ELSE IF ~profiles_theme_check(theme) THEN CheckViolation
                ELSE IF ~profiles_username_unique(id, username) THEN UniqueViolation
                ELSE Success
    IN  /\ uid \in DOMAIN auth_users
        /\ profiles' = IF seen /\ code = Success
                       THEN [profiles EXCEPT ![id].username = username, ![id].theme = theme]
                       ELSE profiles
        /\ lastOp' = ProfileOp("update", code, IF seen /\ code = Success THEN 1 ELSE 0)
        /\ direct' = direct + 1
        /\ UNCHANGED auth_users
        /\ ProfileFrame

\* DELETE FROM profiles WHERE id = id, by uid: DELETE is granted and no
\* policy is FOR DELETE, so no row is visible to the statement
DirectDeleteProfile(uid, id) ==
    /\ uid \in DOMAIN auth_users
    /\ lastOp' = ProfileOp("delete", Success, 0)
    /\ direct' = direct + 1
    /\ UNCHANGED <<auth_users, profiles>>
    /\ ProfileFrame

ProfInit ==
    /\ auth_users = <<>>
    /\ profiles = <<>>
    /\ user_locations = <<>>
    /\ installed = SetupVersion
    /\ nearbyUsers = <<>>
    /\ nearbyQuery = NoQuery
    /\ UiInit
    /\ lastOp = NoOp
    /\ connection_requests = <<>>
    /\ connections = <<>>
    /\ notifications = <<>>
    /\ messages = <<>>
    /\ direct = 0
    /\ inflight = <<>>

DirectProfileNext ==
    /\ direct < MaxProfileDirect
    /\ \/ \E uid \in IdentityIds, id \in IdentityIds, username \in UsernameInputs :
               DirectInsertProfile(uid, id, username)
       \/ \E uid \in IdentityIds, id \in IdentityIds, username \in UsernameInputs,
             theme \in ThemeInputs : DirectUpdateProfile(uid, id, username, theme)
       \/ \E uid \in IdentityIds, id \in IdentityIds : DirectDeleteProfile(uid, id)

ProfNext ==
    \/ \E id \in IdentityIds, email \in EmailInputs, handle \in HandleInputs :
           SignUp(id, email, handle)
    \/ \E id \in IdentityIds : RunHookAgain(id)
    \/ \E id \in IdentityIds : DeleteIdentity(id)
    \/ DirectProfileNext

\* sign-ups, the hook, and the data API on profiles
ProfSpec == ProfInit /\ [][ProfNext]_vars

MaxNow == 4

\* currentUserId of the browser
Me == 1

\* msg.id.startsWith('temp-'): temporary ids are the negative numbers
IsTemp(id) == id < 0
\* `temp-${Date.now()}`
TempId == 0 - now

UiOp(name, n) == [NoOp EXCEPT !.op = name, !.rows = n]

\* something on its way to a component of the browser
Item(kind, owner, cid, chan, rows, temp) ==
    [kind |-> kind, owner |-> owner, connection_id |-> cid, channel |-> chan, rows |-> rows,
     temp |-> temp, again |-> FALSE]

\* supabase.channel(name).on('postgres_changes', {event: 'INSERT', table,
\* filter}).subscribe(), created at time now
Channel(owner, table, cid) == [id |-> now, owner |-> owner, table |-> table, connection_id |-> cid]

\* supabase.removeChannel(channel): the channel is gone and its callbacks
\* run no more
removeChannel(chs, id) == {c \in chs : c.id # id}
WithoutEventsOf(items, id) == {e \in items : ~(e.kind = "event" /\ e.channel = id)}

\* the INSERT events realtime sends for a new row of messages
MessageEvents(chs, row) ==
    {Item("event", c.owner, row.connection_id, c.id, <<row>>, 0) :
        c \in {d \in chs : d.table = "messages" /\ d.connection_id = row.connection_id}}

\* the item after a delivery: gone, or to be delivered once more
Delivered(items, e, again) ==
    IF again THEN (items \ {e}) \cup {[e EXCEPT !.again = TRUE]} ELSE items \ {e}

\* mutation: the INSERT callback without the test for a known id
ChatWindow_onInsert_append(prev, newMsg) ==
    LET filteredPrev == SelectSeq(prev, LAMBDA msg :
                            ~(IsTemp(msg.id) /\ msg.content = newMsg.content
                                             /\ msg.sender_id = newMsg.sender_id))
    IN  Append(filteredPrev, newMsg)

\* the INSERT callback of ChatWindow's subscription, on the list prev
ChatWindow_onInsert(prev, newMsg) ==
    LET filteredPrev == SelectSeq(prev, LAMBDA msg :
                            ~(IsTemp(msg.id) /\ msg.content = newMsg.content
                                             /\ msg.sender_id = newMsg.sender_id))
    IN  IF \E k \in 1..Len(filteredPrev) : filteredPrev[k].id = newMsg.id
        THEN filteredPrev
        ELSE Append(filteredPrev, newMsg)

\* prev.map(msg => msg.id === tempId ? data : msg)
ReplaceTemp(prev, tempId, data) ==
    [k \in 1..Len(prev) |-> IF prev[k].id = tempId THEN data ELSE prev[k]]

\* prev.filter(msg => msg.id !== tempId)
RemoveTemp(prev, tempId) == SelectSeq(prev, LAMBDA msg : msg.id # tempId)

WinFrame ==
    UNCHANGED <<connection_requests, connections, notifications, geo, nearbyCount, auth_users,
                floatingChat, notificationBell, direct, inflight>>

\* subscribeToMessages: the previous channel of channelRef, if any, is
\* removed and a new one is created
ChatWindow_subscribe(chs, ref, cid) ==
    (IF ref # NoChannel THEN removeChannel(chs, ref) ELSE chs)
        \cup {Channel("ChatWindow", "messages", cid)}

\* mutation: a cleanup that removes nothing
ChatWindow_cleanup_none(chs, ref) == chs

\* the cleanup subscribeToMessages returns
ChatWindow_cleanup(chs, ref) == IF ref # NoChannel THEN removeChannel(chs, ref) ELSE chs

\* useEffect(..., [connection.id]) of a window on cid whose state is win and
\* whose previous effect has been cleaned up: fetchMessages(),
\* subscribeToMessages(), markMessagesAsRead()
ChatWindow_effect(win, chs, items, cid) ==
    /\ now < MaxNow
    /\ IsParticipant(Me, cid)
    /\ channels' = ChatWindow_subscribe(chs, win.channelRef, cid)
    /\ chatWindow' = [win EXCEPT !.mounted = TRUE, !.connection = cid, !.channelRef = now]
    /\ net' = items \cup {Item("fetch-req", "ChatWindow", cid, NoChannel, <<>>, 0)}
    /\ messages' = MarkReadStmt(Me, cid).messages
    /\ now' = now + 1
    /\ WinFrame

\* the window is rendered for connection cid
ChatWindow_open(cid) ==
    /\ ~chatWindow.mounted
    /\ ChatWindow_effect(chatWindow, channels, net, cid)
    /\ lastOp' = UiOp("open", 0)

\* the window is given another connection: the cleanup of the old effect,
\* then the effect
ChatWindow_switch(cid) ==
    /\ chatWindow.mounted /\ cid # chatWindow.connection
    /\ ChatWindow_effect([chatWindow EXCEPT !.channelRef = NoChannel],
                         ChatWindow_cleanup(channels, chatWindow.channelRef),
                         WithoutEventsOf(net, chatWindow.channelRef), cid)
    /\ lastOp' = UiOp("switch", 0)

\* the window is closed: the cleanup runs and the component's state is gone,
\* responses still on their way set no state
ChatWindow_close ==
    /\ chatWindow.mounted
    /\ channels' = ChatWindow_cleanup(channels, chatWindow.channelRef)
    /\ chatWindow' = ClosedWindow
    /\ net' = {e \in net : e.owner # "ChatWindow"}
    /\ lastOp' = UiOp("close", 0)
    /\ UNCHANGED <<messages, now>>
    /\ WinFrame

\* the server answers fetchMessages' query
ServeFetch(e) ==
    /\ e.kind = "fetch-req"
    /\ net' = (net \ {e}) \cup
              {[e EXCEPT !.kind = "fetch-res",
                         !.rows = fetchMessages(messages, Me, e.connection_id)]}
    /\ lastOp' = UiOp("select", 0)
    /\ UNCHANGED <<messages, chatWindow, channels, now>>
    /\ WinFrame

\* fetchMessages: setMessages(data || [])
ChatWindow_onFetched(e) ==
    /\ e.kind = "fetch-res" /\ e.owner = "ChatWindow"
    /\ chatWindow' = [chatWindow EXCEPT !.messages = e.rows]
    /\ net' = net \ {e}
    /\ lastOp' = UiOp("fetched", Len(e.rows))
    /\ UNCHANGED <<messages, channels, now>>
    /\ WinFrame

\* sendMessage: the temporary message, then the insert, which succeeds
\* (rpc = "data": the row is stored and realtime sends its events) or fails
ChatWindow_sendMessage(content, rpc) ==
    LET cid == chatWindow.connection
        tempMessage == [id |-> TempId, connection_id |-> cid, sender_id |-> Me,
                        content |-> content, is_read |-> FALSE]
        out == InsertMessageStmt(Me, cid, Me, content)
        ok == rpc = "data" /\ out.sqlstate = Success
        data == out.messages[Len(out.messages)]
    IN  /\ chatWindow.mounted /\ ~chatWindow.loading
        /\ now < MaxNow /\ Len(messages) < MaxMessages
        /\ chatWindow' = [chatWindow EXCEPT !.messages = Append(@, tempMessage),
                                            !.loading = TRUE]
        /\ messages' = IF ok THEN out.messages ELSE messages
        /\ net' = net \cup (IF ok THEN MessageEvents(channels, data) ELSE {})
                      \cup {Item(IF ok THEN "insert-res" ELSE "insert-err", "ChatWindow", cid,
                                 NoChannel, IF ok THEN <<data>> ELSE <<>>, TempId)}
        /\ now' = now + 1
        /\ lastOp' = UiOp("send-message", IF ok THEN 1 ELSE 0)
        /\ UNCHANGED channels
        /\ WinFrame

\* sendMessage after the await: the temporary message is replaced by the
\* stored row, or removed on error; finally setLoading(false)
ChatWindow_onInserted(e) ==
    /\ e.kind \in {"insert-res", "insert-err"} /\ e.owner = "ChatWindow"
    /\ chatWindow' = [chatWindow EXCEPT
                         !.messages = IF e.kind = "insert-res"
                                      THEN ReplaceTemp(@, e.temp, e.rows[1])
                                      ELSE RemoveTemp(@, e.temp),
                         !.loading = FALSE]
    /\ net' = net \ {e}
    /\ lastOp' = UiOp("inserted", Len(e.rows))
    /\ UNCHANGED <<messages, channels, now>>
    /\ WinFrame

\* realtime delivers an INSERT event to the window's channel, for the first
\* time or once more; lastOp.rows tells whether the id was in the list
ChatWindow_onEvent(e, again) ==
    LET newMsg == e.rows[1]
        known == \E k \in 1..Len(chatWindow.messages) : chatWindow.messages[k].id = newMsg.id
    IN  /\ e.kind = "event" /\ e.owner = "ChatWindow"
        /\ chatWindow.mounted /\ e.channel = chatWindow.channelRef
        /\ again => ~e.again
        /\ chatWindow' = [chatWindow EXCEPT !.messages = ChatWindow_onInsert(@, newMsg)]
        /\ messages' = IF newMsg.sender_id # Me
                       THEN MarkReadStmt(Me, chatWindow.connection).messages ELSE messages
        /\ net' = Delivered(net, e, again)
        /\ lastOp' = UiOp("event", IF known THEN 1 ELSE 0)
        /\ UNCHANGED <<channels, now>>
        /\ WinFrame

\* the other participant of a connection sends a message from their browser
PeerSendsMessage(uid, cid, content) ==
    LET out == InsertMessageStmt(uid, cid, uid, content)
    IN  /\ uid # Me /\ out.sqlstate = Success
        /\ Len(messages) < MaxMessages
        /\ messages' = out.messages
        /\ net' = net \cup MessageEvents(channels, out.messages[Len(out.messages)])
        /\ lastOp' = UiOp("peer-message", 1)
        /\ UNCHANGED <<chatWindow, channels, now>>
        /\ WinFrame

\* two connections of Me
WinInit ==
    /\ connections = <<[id |-> 1, user_id_1 |-> 1, user_id_2 |-> 2],
                       [id |-> 2, user_id_1 |-> 1, user_id_2 |-> 3]>>
    /\ connection_requests = <<>>
    /\ notifications = <<>>
    /\ messages = <<>>
    /\ profiles = [u \in Users |-> [is_available |-> "true"]]
    /\ user_locations = <<>>
    /\ installed = SetupVersion
    /\ nearbyUsers = <<>>
    /\ nearbyQuery = NoQuery
    /\ UiInit
    /\ auth_users = [u \in Users |-> NoIdentityData]
    /\ lastOp = NoOp
    /\ direct = 0
    /\ inflight = <<>>

WinNext ==
    \/ \E cid \in ConnectionIds : ChatWindow_open(cid)
    \/ \E cid \in ConnectionIds : ChatWindow_switch(cid)
    \/ ChatWindow_close
    \/ \E e \in net : ServeFetch(e)
    \/ \E e \in net : ChatWindow_onFetched(e)
    \/ \E content \in MessageContents, rpc \in RpcOutcomes : ChatWindow_sendMessage(content, rpc)
    \/ \E e \in net : ChatWindow_onInserted(e)
    \/ \E e \in net, again \in BOOLEAN : ChatWindow_onEvent(e, again)
    \/ \E uid \in Users, cid \in ConnectionIds, content \in MessageContents :
           PeerSendsMessage(uid, cid, content)

\* a ChatWindow, its requests and its realtime events, and the peers
WinSpec == WinInit /\ [][WinNext]_vars

\* C26: the message list of the ChatWindow never holds two entries with the
\* same id, whatever the order in which the insert response, the realtime
\* events (delivered once or twice) and the fetch result arrive.
C26_ChatWindowNoDuplicateIds ==
    \A i, j \in 1..Len(chatWindow.messages) :
        i # j => chatWindow.messages[i].id # chatWindow.messages[j].id

\* the event of a message arrived when its row was in the list already
C26_Witness ==
    /\ lastOp.op = "event" /\ lastOp.rows = 1
    /\ \E k \in 1..Len(chatWindow.messages) :
           /\ chatWindow.messages[k].sender_id = Me
           /\ ~IsTemp(chatWindow.messages[k].id)

\* the message subscriptions the ChatWindow has made and not removed
ChatWindowChannels == {c \in channels : c.owner = "ChatWindow"}

\* C30: the ChatWindow holds at most one realtime subscription; a window
\* that is open holds none for a connection other than the one it shows, and
\* once it is closed none remains.
C30_ChatWindowOneSubscription ==
    /\ Cardinality(ChatWindowChannels) <= 1
    /\ \A c \in ChatWindowChannels :
           /\ chatWindow.mounted
           /\ c.connection_id = chatWindow.connection
           /\ c.id = chatWindow.channelRef

\* the window has been switched to its second connection and then closed
\* or left open, after a subscription to the first
C30_Witness ==
    /\ lastOp.op = "switch"
    /\ chatWindow.connection = 2
    /\ \E c \in ChatWindowChannels : c.connection_id = 2 /\ c.id > 1

\* ---------------------------------------------------------------------
\* The FloatingChat component
\* ---------------------------------------------------------------------

FloatFrame ==
    UNCHANGED <<connection_requests, connections, notifications, geo, nearbyCount, auth_users,
                chatWindow, notificationBell, direct, inflight>>

\* the connections prop: the connections of Me
MyConnections == {cid \in ConnectionIds : IsParticipant(Me, cid)}

\* f with x mapped to v
WithEntry(f, x, v) == [y \in DOMAIN f \cup {x} |-> IF y = x THEN v ELSE f[y]]

\* useEffect(..., [connections]): a session for every connection that has
\* none, its unreadCount the unread_count fetchConnections counted
FloatingChat_initSessions ==
    /\ \E cid \in MyConnections : cid \notin DOMAIN floatingChat.chatSessions
    /\ floatingChat' =
           [floatingChat EXCEPT !.chatSessions =
               [cid \in MyConnections |->
                   IF cid \in DOMAIN floatingChat.chatSessions
                   THEN floatingChat.chatSessions[cid]
                   ELSE [messages |-> <<>>, unreadCount |-> unread_count(messages, Me, cid),
                         isLoading |-> FALSE]]]
    /\ lastOp' = UiOp("sessions", 0)
    /\ UNCHANGED <<messages, channels, net, now>>
    /\ FloatFrame

\* setActiveChat(cid), cid = 0 for null, and useEffect(..., [activeChat]):
\* with no message in the session, fetchMessages and subscribeToMessages
FloatingChat_setActiveChat(cid) ==
    LET load == cid # 0 /\ floatingChat.chatSessions[cid].messages = <<>>
        old == IF cid \in DOMAIN floatingChat.channelsRef
               THEN floatingChat.channelsRef[cid] ELSE NoChannel
    IN  /\ cid = 0 \/ cid \in DOMAIN floatingChat.chatSessions
        /\ cid # floatingChat.activeChat
        /\ load => now < MaxNow
        /\ floatingChat' =
               IF load
               THEN [floatingChat EXCEPT !.activeChat = cid, !.isOpen = TRUE,
                                         !.chatSessions[cid].isLoading = TRUE,
                                         !.channelsRef = WithEntry(@, cid, now)]
               ELSE [floatingChat EXCEPT !.activeChat = cid]
        /\ channels' = IF load
                       THEN removeChannel(channels, old)
                                \cup {Channel("FloatingChat", "messages", cid)}
                       ELSE channels
        /\ net' = IF load
                  THEN WithoutEventsOf(net, old)
                           \cup {Item("fetch-req", "FloatingChat", cid, NoChannel, <<>>, 0)}
                  ELSE net
        /\ now' = IF load THEN now + 1 ELSE now
        /\ lastOp' = UiOp("active", 0)
        /\ UNCHANGED messages
        /\ FloatFrame

\* fetchMessages after the query: the session's messages are the rows, then
\* markMessagesAsRead
FloatingChat_onFetched(e) ==
    /\ e.kind = "fetch-res" /\ e.owner = "FloatingChat"
    /\ floatingChat' = [floatingChat EXCEPT
                           !.chatSessions[e.connection_id].messages = e.rows,
                           !.chatSessions[e.connection_id].isLoading = FALSE]
    /\ net' = (net \ {e}) \cup {Item("markread-req", "FloatingChat", e.connection_id,
                                     NoChannel, <<>>, 0)}
    /\ lastOp' = UiOp("fetched", Len(e.rows))
    /\ UNCHANGED <<messages, channels, now>>
    /\ FloatFrame

\* the server runs the UPDATE of markMessagesAsRead
ServeMarkRead(e) ==
    /\ e.kind = "markread-req"
    /\ messages' = MarkReadStmt(Me, e.connection_id).messages
    /\ net' = (net \ {e}) \cup {[e EXCEPT !.kind = "markread-res"]}
    /\ lastOp' = UiOp("update-read", 0)
    /\ UNCHANGED <<floatingChat, channels, now>>
    /\ FloatFrame

\* markMessagesAsRead after the update: unreadCount: 0
FloatingChat_onMarkedRead(e) ==
    /\ e.kind = "markread-res" /\ e.owner = "FloatingChat"
    /\ floatingChat' = [floatingChat EXCEPT !.chatSessions[e.connection_id].unreadCount = 0]
    /\ net' = net \ {e}
    /\ lastOp' = UiOp("marked-read", 0)
    /\ UNCHANGED <<messages, channels, now>>
    /\ FloatFrame

\* sendMessage(connectionId) of the active chat: the optimistic message,
\* then the insert, which succeeds or fails
FloatingChat_sendMessage(cid, content, rpc) ==
    LET tempMessage == [id |-> TempId, connection_id |-> cid, sender_id |-> Me,
                        content |-> content, is_read |-> FALSE]
        out == InsertMessageStmt(Me, cid, Me, content)
        ok == rpc = "data" /\ out.sqlstate = Success
        data == out.messages[Len(out.messages)]
    IN  /\ cid \in DOMAIN floatingChat.chatSessions /\ cid = floatingChat.activeChat
        /\ ~floatingChat.chatSessions[cid].isLoading
        /\ now < MaxNow /\ Len(messages) < MaxMessages
        /\ floatingChat' = [floatingChat EXCEPT
                               !.chatSessions[cid].messages = Append(@, tempMessage),
                               !.chatSessions[cid].isLoading = TRUE]
        /\ messages' = IF ok THEN out.messages ELSE messages
        /\ net' = net \cup (IF ok THEN MessageEvents(channels, data) ELSE {})
                      \cup {Item(IF ok THEN "insert-res" ELSE "insert-err", "FloatingChat", cid,
                                 NoChannel, IF ok THEN <<data>> ELSE <<>>, TempId)}
        /\ now' = now + 1
        /\ lastOp' = UiOp("send-message", IF ok THEN 1 ELSE 0)
        /\ UNCHANGED channels
        /\ FloatFrame

\* sendMessage after the await: the temporary message is replaced by the
\* stored row, or removed on error; finally isLoading: false
FloatingChat_onInserted(e) ==
    /\ e.kind \in {"insert-res", "insert-err"} /\ e.owner = "FloatingChat"
    /\ floatingChat' = [floatingChat EXCEPT
                           !.chatSessions[e.connection_id].messages =
                               IF e.kind = "insert-res" THEN ReplaceTemp(@, e.temp, e.rows[1])
                                                        ELSE RemoveTemp(@, e.temp),
                           !.chatSessions[e.connection_id].isLoading = FALSE]
    /\ net' = net \ {e}
    /\ lastOp' = UiOp("inserted", Len(e.rows))
    /\ UNCHANGED <<messages, channels, now>>
    /\ FloatFrame

\* the INSERT callback of a session's subscription, on the list prev
FloatingChat_onInsert(prev, newMsg) ==
    Append(SelectSeq(prev, LAMBDA m : ~IsTemp(m.id)), newMsg)

\* realtime delivers an INSERT event to the channel of a session, for the
\* first time or once more. The callback was made in the render in which
\* activeChat was this connection, so its test activeChat === connectionId
\* is true and a message of the peer is followed by markMessagesAsRead.
FloatingChat_onEvent(e, again) ==
    LET newMsg == e.rows[1]
        cid == e.connection_id
        known == \E k \in 1..Len(floatingChat.chatSessions[cid].messages) :
                     floatingChat.chatSessions[cid].messages[k].id = newMsg.id
    IN  /\ e.kind = "event" /\ e.owner = "FloatingChat"
        /\ cid \in DOMAIN floatingChat.channelsRef /\ e.channel = floatingChat.channelsRef[cid]
        /\ again => ~e.again
        /\ floatingChat' = [floatingChat EXCEPT
                               !.chatSessions[cid].messages = FloatingChat_onInsert(@, newMsg),
                               !.chatSessions[cid].unreadCount =
                                   IF newMsg.sender_id # Me THEN @ + 1 ELSE @]
        /\ net' = Delivered(net, e, again)
                      \cup (IF newMsg.sender_id # Me
                            THEN {Item("markread-req", "FloatingChat", cid, NoChannel, <<>>, 0)}
                            ELSE {})
        /\ lastOp' = UiOp("event", IF known THEN 1 ELSE 0)
        /\ UNCHANGED <<messages, channels, now>>
        /\ FloatFrame

\* the messages typed in FloatSpec
FloatContents == {"hi"}

\* one connection of Me
FloatInit ==
    /\ connections = <<[id |-> 1, user_id_1 |-> 1, user_id_2 |-> 2]>>
    /\ connection_requests = <<>>
    /\ notifications = <<>>
    /\ messages = <<>>
    /\ profiles = [u \in Users |-> [is_available |-> "true"]]
    /\ user_locations = <<>>
    /\ installed = SetupVersion
    /\ nearbyUsers = <<>>
    /\ nearbyQuery = NoQuery
    /\ UiInit
    /\ auth_users = [u \in Users |-> NoIdentityData]
    /\ lastOp = NoOp
    /\ direct = 0
    /\ inflight = <<>>

FloatNext ==
    \/ FloatingChat_initSessions
    \/ \E cid \in ConnectionIds \cup {0} : FloatingChat_setActiveChat(cid)
    \/ \E e \in net : ServeFetch(e)
    \/ \E e \in net : FloatingChat_onFetched(e)
    \/ \E e \in net : ServeMarkRead(e)
    \/ \E e \in net : FloatingChat_onMarkedRead(e)
    \/ \E cid \in ConnectionIds, content \in FloatContents, rpc \in RpcOutcomes :
           FloatingChat_sendMessage(cid, content, rpc)
    \/ \E e \in net : FloatingChat_onInserted(e)
    \/ \E e \in net, again \in BOOLEAN : FloatingChat_onEvent(e, again)
    \/ \E uid \in Users, cid \in ConnectionIds, content \in FloatContents :
           PeerSendsMessage(uid, cid, content)

\* a FloatingChat, its requests and its realtime events, and the peers
FloatSpec == FloatInit /\ [][FloatNext]_vars

\* C27 (as claimed): no session of FloatingChat holds two entries with the
\* same message id, whatever the order of the insert response and the
\* realtime event of a message.
C27_FloatingChatNoDuplicateIds ==
    \A cid \in DOMAIN floatingChat.chatSessions :
        LET list == floatingChat.chatSessions[cid].messages
        IN  \A i, j \in 1..Len(list) : i # j => list[i].id # list[j].id

\* C29 (as claimed): whenever nothing is on its way to the browser, the
\* unreadCount of every session is the number of messages of its connection
\* that the other participant sent and that are not read.
C29_UnreadCountConsistent ==
    net = {} =>
        \A cid \in DOMAIN floatingChat.chatSessions :
            floatingChat.chatSessions[cid].unreadCount =
                Cardinality({i \in 1..Len(messages) :
                                /\ messages[i].connection_id = cid
                                /\ messages[i].sender_id = OtherParticipant(Me, cid)
                                /\ messages[i].is_read = FALSE})

\* ------------------------------------------------------- NotificationBell
\* .limit(20)
NotificationsLimit == 20

\* USING (auth.uid() = user_id)
notifications_select_policy(uid, row) == uid = row.user_id

\* SELECT * FROM notifications ORDER BY created_at DESC LIMIT 20, by uid: rows
\* are created in the order of their ids
fetchNotifications(notifs, uid) ==
    LET own == SelectSeq(notifs, LAMBDA n : notifications_select_policy(uid, n))
        desc == [k \in 1..Len(own) |-> own[Len(own) + 1 - k]]
    IN  IF Len(desc) > NotificationsLimit THEN SubSeq(desc, 1, NotificationsLimit) ELSE desc

\* data?.filter(n => !n.is_read).length
UnreadIn(rows) == Cardinality({k \in 1..Len(rows) : ~rows[k].is_read})

\* the INSERT events realtime sends for a new row of notifications; the
\* subscriptions carry the filter user_id=eq.<their user>, who is Me
NotificationEvents(chs, rows) ==
    {Item("event", c.owner, 0, c.id, <<rows[k]>>, 0) :
        c \in {d \in chs : d.table = "notifications"},
        k \in {j \in 1..Len(rows) : rows[j].user_id = Me}}

BellFrame ==
    UNCHANGED <<connections, messages, geo, nearbyCount, auth_users, chatWindow,
                floatingChat, direct, inflight>>

BellItems == {e \in net : e.owner = "NotificationBell"}

\* the UPDATE events realtime sends for a changed row of notifications,
\* stamped with the time of the statement
NotificationUpdateEvents(chs, row) ==
    {Item("update", c.owner, 0, c.id, <<row>>, now) :
        c \in {d \in chs : d.table = "notifications" /\ row.user_id = Me}}

\* useEffect(..., []): fetchNotifications() and setupRealtimeSubscription()
\* start their requests
NotificationBell_mount ==
    /\ ~notificationBell.mounted /\ BellItems = {}
    /\ notificationBell' = [NoBell EXCEPT !.mounted = TRUE]
    /\ net' = net \cup {Item("fetch-req", "NotificationBell", 0, NoChannel, <<>>, 0),
                        Item("user-res", "NotificationBell", 0, NoChannel, <<>>, 0)}
    /\ lastOp' = UiOp("mount", 0)
    /\ UNCHANGED <<db, channels, now>>
    /\ BellFrame

\* the cleanup of the effect removes the mousedown listener; the state of
\* the component is gone, what it has started goes on
NotificationBell_unmount ==
    /\ notificationBell.mounted
    /\ notificationBell' = NoBell
    /\ lastOp' = UiOp("unmount", 0)
    /\ UNCHANGED <<db, channels, net, now>>
    /\ BellFrame

\* supabase.auth.getUser().then(...): the channel 'user-notifications'; the
\* function the callback returns is dropped
NotificationBell_subscribe(e) ==
    LET channel == Channel("NotificationBell", "notifications", 0)
    IN  /\ e.kind = "user-res" /\ e.owner = "NotificationBell"
        /\ now < MaxNow
        /\ channels' = channels \cup {channel}
        /\ notificationBell' = IF notificationBell.mounted
                               THEN [notificationBell EXCEPT !.channel = channel.id]
                               ELSE notificationBell
        /\ net' = net \ {e}
        /\ now' = now + 1
        /\ lastOp' = UiOp("subscribe", 0)
        /\ UNCHANGED db
        /\ BellFrame

\* the server answers the select of fetchNotifications
ServeNotifications(e) ==
    /\ e.kind = "fetch-req" /\ e.owner = "NotificationBell"
    /\ net' = (net \ {e}) \cup
              {[e EXCEPT !.kind = "fetch-res", !.rows = fetchNotifications(notifications, Me)]}
    /\ lastOp' = UiOp("select", 0)
    /\ UNCHANGED <<db, notificationBell, channels, now>>
    /\ BellFrame

\* fetchNotifications: setNotifications(data || []); setUnreadCount(...);
\* setting the state of a component that is gone does nothing
NotificationBell_onFetched(e) ==
    /\ e.kind = "fetch-res" /\ e.owner = "NotificationBell"
    /\ notificationBell' = IF notificationBell.mounted
                           THEN [notificationBell EXCEPT !.notifications = e.rows,
                                                         !.unreadCount = UnreadIn(e.rows)]
                           ELSE notificationBell
    /\ net' = net \ {e}
    /\ lastOp' = UiOp("fetched", Len(e.rows))
    /\ UNCHANGED <<db, channels, now>>
    /\ BellFrame

\* setNotifications(prev => [newNotification, ...prev])
NotificationBell_onInsert(prev, newNotification) == <<newNotification>> \o prev

\* the INSERT callback of the subscription; the event may be delivered again
NotificationBell_onEvent(e, again) ==
    /\ e.kind = "event" /\ e.owner = "NotificationBell"
    /\ notificationBell.mounted /\ e.channel = notificationBell.channel
    /\ again => ~e.again
    /\ notificationBell' =
           [notificationBell EXCEPT !.notifications = NotificationBell_onInsert(@, e.rows[1]),
                                    !.unreadCount = @ + 1]
    /\ net' = Delivered(net, e, again)
    /\ lastOp' = UiOp("event", 1)
    /\ UNCHANGED <<db, channels, now>>
    /\ BellFrame

\* prev.map(n => n.id === updatedNotification.id ? updatedNotification : n)
NotificationBell_onUpdated(prev, updatedNotification) ==
    [k \in 1..Len(prev) |-> IF prev[k].id = updatedNotification.id
                            THEN updatedNotification ELSE prev[k]]

\* Math.max(0, prev - 1)
MathMax(a, b) == IF a > b THEN a ELSE b

\* the UPDATE callback of the subscription; the event may be delivered again
NotificationBell_onUpdate(e, again) ==
    /\ e.kind = "update" /\ e.owner = "NotificationBell"
    /\ notificationBell.mounted /\ e.channel = notificationBell.channel
    /\ again => ~e.again
    /\ notificationBell' =
           [notificationBell EXCEPT
               !.notifications = NotificationBell_onUpdated(@, e.rows[1]),
               !.unreadCount = IF e.rows[1].is_read THEN MathMax(0, @ - 1) ELSE @]
    /\ net' = Delivered(net, e, again)
    /\ lastOp' = UiOp("update-event", 1)
    /\ UNCHANGED <<db, channels, now>>
    /\ BellFrame

\* an event of a channel whose component is gone: its callback sets no state
NotificationBell_onStaleEvent(e) ==
    /\ e.kind \in {"event", "update"} /\ e.owner = "NotificationBell"
    /\ ~(notificationBell.mounted /\ e.channel = notificationBell.channel)
    /\ net' = net \ {e}
    /\ lastOp' = UiOp("stale-event", 0)
    /\ UNCHANGED <<db, notificationBell, channels, now>>
    /\ BellFrame

\* handleNotificationClick on an entry shown as unread: markAsRead calls
\* mark_notification_read, which updates the row
NotificationBell_markAsRead(k) ==
    LET notification == notificationBell.notifications[k]
        out == mark_notification_read(Me, notification.id)
    IN  /\ notificationBell.mounted
        /\ ~notification.is_read
        /\ now < MaxNow
        /\ notifications' = out.notifications
        /\ net' = net \cup (IF out.rows = 1
                            THEN NotificationUpdateEvents(channels,
                                                          out.notifications[notification.id])
                            ELSE {})
        /\ now' = now + 1
        /\ lastOp' = UiOp("click", out.rows)
        /\ UNCHANGED <<connection_requests, connections, notificationBell, channels>>
        /\ BellFrame

\* a user sends a connection request; the trigger's notification goes to the
\* subscriptions of its receiver
UserSendsRequest(uid, r) ==
    LET out == InsertRequestStmt(uid, uid, r, "pending")
    IN  /\ uid # r /\ out.sqlstate = Success
        /\ WithinBounds(out)
        /\ connection_requests' = out.connection_requests
        /\ connections' = out.connections
        /\ notifications' = out.notifications
        /\ net' = net \cup NotificationEvents(channels,
                      SubSeq(out.notifications, Len(notifications) + 1, Len(out.notifications)))
        /\ lastOp' = UiOp("send", 1)
        /\ UNCHANGED <<notificationBell, channels, now>>
        /\ BellFrame

BellNext ==
    \/ NotificationBell_mount
    \/ NotificationBell_unmount
    \/ \E e \in net : NotificationBell_subscribe(e)
    \/ \E e \in net : ServeNotifications(e)
    \/ \E e \in net : NotificationBell_onFetched(e)
    \/ \E e \in net, again \in BOOLEAN : NotificationBell_onEvent(e, again)
    \/ \E e \in net, again \in BOOLEAN : NotificationBell_onUpdate(e, again)
    \/ \E e \in net : NotificationBell_onStaleEvent(e)
    \/ \E k \in 1..Len(notificationBell.notifications) : NotificationBell_markAsRead(k)
    \/ \E uid \in Users, r \in Users : UserSendsRequest(uid, r)

\* a NotificationBell of Me, its requests and its realtime events, and the
\* users who send connection requests
BellSpec == Init /\ [][BellNext]_vars

\* C28 (as claimed): the notification list of the NotificationBell never
\* holds two entries with the same notification id, whatever the order in
\* which the fetch result and the realtime INSERT events (delivered once or
\* twice) arrive.
C28_BellNoDuplicateIds ==
    \A i \in 1..Len(notificationBell.notifications) :
        \A j \in 1..Len(notificationBell.notifications) :
            notificationBell.notifications[i].id = notificationBell.notifications[j].id
                => i = j

\* C33 (as claimed): a request with status accepted implies that a
\* connection exists between its sender and its receiver.
C33_AcceptedImpliesConnection ==
    \A i \in 1..Len(connection_requests) :
        SqlEq(connection_requests[i].status, "accepted")
            => ConnectionsOfPair(connections, connection_requests[i].sender_id,
                                 connection_requests[i].receiver_id) # {}

\* C34 (as claimed): no step changes the sender_id or the receiver_id of a
\* stored request.
C34_SenderReceiverImmutable ==
    [][\A i \in 1..Len(connection_requests) :
           i \in 1..Len(connection_requests')
               => /\ connection_requests'[i].sender_id = connection_requests[i].sender_id
                  /\ connection_requests'[i].receiver_id = connection_requests[i].receiver_id]_vars

\* C35 (as claimed): a request whose sender is its receiver never has the
\* status accepted, no connection has two identical participants and no
\* connection_accepted notification names such a request.
C35_SelfRequestNeverAccepted ==
    /\ \A i \in 1..Len(connection_requests) :
           connection_requests[i].sender_id = connection_requests[i].receiver_id
               => /\ ~SqlEq(connection_requests[i].status, "accepted")
                  /\ AcceptedNotifications(notifications, connection_requests[i].id) = {}
    /\ \A k \in 1..Len(connections) : connections[k].user_id_1 # connections[k].user_id_2

\* C38 (as claimed): when the ChatWindow has just stored a fetchMessages
\* result, every message of its list belongs to its current connection: the
\* result of a fetch for a previous connection never replaces the list.
C38_FetchedListOfCurrentConnection ==
    (chatWindow.mounted /\ lastOp.op = "fetched")
        => \A k \in 1..Len(chatWindow.messages) :
               chatWindow.messages[k].connection_id = chatWindow.connection

\* the number of entries of a message list with the id
Occurrences(list, id) == Cardinality({k \in 1..Len(list) : list[k].id = id})

\* the insert responses and the realtime events of the window
MessageItems(items) ==
    {i \in items : i.owner = "ChatWindow" /\ i.kind \in {"insert-res", "event"}}

\* those that carry the stored message with the id
ItemsOfMessage(items, id) == {i \in MessageItems(items) : i.rows[1].id = id}

\* every temporary entry of the list still waits for its insert response
NoStaleTemp(list, items) ==
    \A k \in 1..Len(list) :
        IsTemp(list[k].id) => \E i \in items : i.owner = "ChatWindow" /\ i.temp = list[k].id

\* C32 (as claimed): when the window processes the insert response or the
\* realtime event of a message it has sent, and nothing else of that
\* message is on its way, the list holds the message exactly once under
\* its stored id and no temporary entry is left of it.
C32_SentMessageOnceNoTemp ==
    [][\A e \in MessageItems(net) :
          (/\ lastOp'.op \in {"inserted", "event"}
           /\ e \notin net'
           /\ e.rows[1].sender_id = Me
           /\ chatWindow'.mounted /\ e.rows[1].connection_id = chatWindow'.connection
           /\ ItemsOfMessage(net', e.rows[1].id) = {})
              => /\ Occurrences(chatWindow'.messages, e.rows[1].id) = 1
                 /\ NoStaleTemp(chatWindow'.messages, net')]_vars

\* the subscriptions of NotificationBell components
BellChannels == {c \in channels : c.owner = "NotificationBell"}

\* C31 (as claimed): at most one notification subscription exists, and when
\* the NotificationBell is unmounted and none of its requests is on its way,
\* no subscription of it is left.
C31_BellSubscriptionReleased ==
    /\ Cardinality(BellChannels) <= 1
    /\ (~notificationBell.mounted /\ {e \in BellItems : e.kind = "user-res"} = {})
           => BellChannels = {}

\* C37 (as claimed): the unreadCount of the NotificationBell is never
\* negative and, when no event is on its way, it is the number of entries of
\* the list with is_read = false.
C37_BellUnreadCountConsistent ==
    /\ notificationBell.unreadCount >= 0
    /\ {e \in BellItems : e.kind \in {"event", "update"}} = {}
           => notificationBell.unreadCount = UnreadIn(notificationBell.notifications)

\* ---------------------------------------------------------------------
\* Location reports and the availability flag
\* ---------------------------------------------------------------------

\* the two copies of the dashboard in the repository
PageVersion == "src/app/dashboard/page.tsx"
PartVersion == "src/unnamed/part_002"
DashboardVersions == {PageVersion, PartVersion}

\* radius_km: 2
DashboardRadius == 2

\* WITH CHECK (auth.uid() = user_id), for INSERT and for UPDATE
user_locations_write_policy(uid, user_id) == uid = user_id

\* supabase.from('user_locations').upsert({user_id, location: POINT(...)})
UpsertLocation(locs, user_id, pos) ==
    [id \in DOMAIN locs \cup {user_id} |->
        IF id = user_id THEN [location |-> <<pos>>] ELSE locs[id]]

LocFrame == UNCHANGED <<db, messages, installed, auth_users, browser, direct, inflight>>

\* the callback of getCurrentPosition in the dashboard of uid: the upsert
\* and, in the copy of part_002, after an upsert without error the update
\* of profiles SET is_available = true
startLocationTracking(uid, pos, tracker, rpc) ==
    LET saved == /\ rpc = "data" /\ user_locations_write_policy(uid, uid)
                 /\ uid \in DOMAIN profiles
    IN  /\ user_locations' = IF saved THEN UpsertLocation(user_locations, uid, pos)
                             ELSE user_locations
        /\ profiles' = IF saved /\ tracker = PartVersion /\ profiles_update_policy(uid, uid)
                       THEN [profiles EXCEPT ![uid].is_available = "true"]
                       ELSE profiles
        /\ lastOp' = [NoOp EXCEPT !.op = "locate", !.rows = IF saved THEN 1 ELSE 0,
                                  !.sqlstate = IF rpc = "error" THEN RpcError ELSE Success]
        /\ UNCHANGED <<nearbyUsers, nearbyQuery, nearbyCount>>
        /\ LocFrame

\* the profile form of uid is saved with the flag isAvailable
saveProfile(uid, isAvailable) ==
    /\ profiles_update_policy(uid, uid)
    /\ profiles' = [profiles EXCEPT ![uid].is_available = isAvailable]
    /\ lastOp' = [NoOp EXCEPT !.op = "availability", !.rows = 1]
    /\ UNCHANGED <<user_locations, nearbyUsers, nearbyQuery, nearbyCount>>
    /\ LocFrame

\* users with any flags, none located yet
LocInit ==
    /\ profiles \in [Users -> [is_available : {"true", "false"}]]
    /\ user_locations = [id \in {} |-> [location |-> <<>>]]
    /\ installed = SetupVersion
    /\ nearbyUsers = <<>>
    /\ nearbyQuery = NoQuery
    /\ UiInit
    /\ auth_users = [u \in Users |-> NoIdentityData]
    /\ lastOp = NoOp
    /\ connection_requests = <<>>
    /\ connections = <<>>
    /\ notifications = <<>>
    /\ messages = <<>>
    /\ direct = 0
    /\ inflight = <<>>

LocNext ==
    \/ \E uid \in Users, pos \in Positions, tracker \in DashboardVersions, rpc \in RpcOutcomes :
           startLocationTracking(uid, pos, tracker, rpc)
    \/ \E uid \in Users, isAvailable \in {"true", "false"} : saveProfile(uid, isAvailable)
    \/ \E uid \in Users, user_pos \in QueryPositions, tie \in {"asc", "desc"},
          rpc \in RpcOutcomes :
           fetchNearbyUsers(uid, user_pos, DashboardRadius, tie, rpc)

\* dashboards that report locations, save profiles and ask for the users
\* nearby
LocSpec == LocInit /\ [][LocNext]_vars

\* C36 (as claimed): a location report never changes the availability flag:
\* the flag of a user goes from false to another value only when that
\* user's profile is saved.
C36_LocationReportKeepsAvailability ==
    [][\A u \in DOMAIN profiles :
          (profiles[u].is_available = "false" /\ profiles'[u].is_available # "false")
              => lastOp'.op = "availability"]_vars

====
